---------------------------- MODULE Spec2Model ----------------------------
(***************************************************************************)
(* Reploom: the draft-generation pipeline (classifier -> contextBuilder -> *)
(* drafter -> policyGuard -> routing), the knowledge-base engine (chunk,   *)
(* deduplicate, upsert, search) and the draft-review store.                *)
(*                                                                         *)
(* Text is modelled as a sequence of units.  In the pipeline a unit is a   *)
(* character; in the knowledge base a unit is a block of TokenUnit tokens  *)
(* (the token path of chunk_text) so that the 800/200 window of            *)
(* upsert_document is 4 blocks wide and advances by 3.                     *)
(***************************************************************************)
EXTENDS Integers, Sequences, FiniteSets, TLC

VARIABLES
    pc,          \* position of the pipeline run: idle, a stage name, route, done, failed
    state,       \* DraftCrewState of the current run
    trace,       \* stages that have executed in the current run, in order
    route,       \* value returned by should_halt ("none" before routing)
    calls,       \* external calls issued by the current run / KB operation
    settingsDb,  \* workspace_settings table: workspace_id -> row
    points,      \* the Qdrant collection: set of stored points
    collections, \* names of the Qdrant collections that exist
    lastOp,      \* the last KB operation, its arguments and its outcome
    reviews,     \* draft_reviews table: id -> row
    resp,        \* last response of a review endpoint
    now,         \* wall clock read by datetime.utcnow()
    checkpoints, \* state the graph server stores: thread_id -> values
    reply,       \* last response of run_draft or get_run_state
    boot,        \* the process start: its environment, get_checkpointer's outcome
    inflight     \* handlers that have started and not returned: id -> local variables

vars == <<pc, state, trace, route, calls, settingsDb, points, collections,
          lastOp, reviews, resp, now, checkpoints, reply, boot, inflight>>

pipelineVars == <<pc, state, trace, route, calls>>
kbVars == <<points, collections, lastOp>>
reviewVars == <<reviews, resp, now>>
runVars == <<checkpoints, reply, boot, inflight>>

(***************************************************************************)
(* Python values                                                           *)
(***************************************************************************)
None == "None"                       \* None of an Optional[str] field
NoDraft == <<"None">>                \* None of draft_html
JNull == [t |-> "null"]              \* JSON null / Python None of a JSON value
JStr(s) == [t |-> "str", v |-> s]
JNum(n) == [t |-> "num", v |-> n]    \* confidence, in tenths
Missing == [t |-> "missing"]         \* key absent from a JSON object

(***************************************************************************)
(* Strings of the pipeline: sequences of characters                        *)
(***************************************************************************)
Chars == {"a", "A", "b", " "}

\* str.lower() on one unit (a character, or a whole word of a stub phrase)
LowerChar(c) ==
    CASE c = "A" -> "a"
      [] c = "FREE" -> "free"
      [] c = "Enjoy" -> "enjoy"
      [] c = "Click" -> "click"
      [] OTHER -> c

\* str.lower()
Lower(s) == [i \in 1..Len(s) |-> LowerChar(s[i])]

RECURSIVE LStrip(_)
LStrip(s) == IF s # <<>> /\ Head(s) = " " THEN LStrip(Tail(s)) ELSE s

RECURSIVE RStrip(_)
RStrip(s) ==
    IF s # <<>> /\ s[Len(s)] = " " THEN RStrip(SubSeq(s, 1, Len(s) - 1)) ELSE s

\* str.strip()
Strip(s) == RStrip(LStrip(s))

\* the Python test `p in d` on strings
IsSubstring(p, d) ==
    \E i \in 0..(Len(d) - Len(p)) : SubSeq(d, i + 1, i + Len(p)) = p

\* d.startswith(p)
StartsWith(d, p) == Len(p) <= Len(d) /\ SubSeq(d, 1, Len(p)) = p

RECURSIVE RemoveUnit(_, _)
\* d.replace(u, "") for a one-unit marker u
RemoveUnit(d, u) ==
    IF d = <<>> THEN <<>>
    ELSE IF Head(d) = u THEN RemoveUnit(Tail(d), u)
    ELSE <<Head(d)>> \o RemoveUnit(Tail(d), u)


(***************************************************************************)
(* Workspace policy configuration (core/workspace.py)                      *)
(***************************************************************************)
NoStyle == {}

DEFAULT_WORKSPACE_SETTINGS ==
    << [workspace_id |-> "default", tone_level |-> 3, style_json |-> NoStyle,
        blocklist_json |-> << <<"free", " ", "trial">>,
                              <<"money", " ", "back", " ", "guarantee">>,
                              <<"limited", " ", "time", " ", "offer">> >>,
        approval_threshold |-> JNum(85)],
       [workspace_id |-> "ws-test", tone_level |-> 2,
        style_json |-> {<<"brand_voice", "formal and professional">>},
        blocklist_json |-> << <<"click", " ", "here">>, <<"act", " ", "now">>,
                              <<"special", " ", "offer">> >>,
        approval_threshold |-> JNum(90)] >>

WorkspaceConfig(workspace_id, tone_level, style_json, blocklist, approval_threshold) ==
    [workspace_id |-> workspace_id, tone_level |-> tone_level,
     style_json |-> style_json, blocklist |-> blocklist,
     approval_threshold |-> approval_threshold]

\* a stub lookup that ignores the workspace
StubFirst(wid) == DEFAULT_WORKSPACE_SETTINGS[1]

\* next((ws for ws in DEFAULT_WORKSPACE_SETTINGS if ...), DEFAULT_WORKSPACE_SETTINGS[0])
StubFor(wid) ==
    LET hits == {i \in 1..Len(DEFAULT_WORKSPACE_SETTINGS) :
                    DEFAULT_WORKSPACE_SETTINGS[i].workspace_id = wid}
    IN IF hits = {} THEN DEFAULT_WORKSPACE_SETTINGS[1]
       ELSE DEFAULT_WORKSPACE_SETTINGS[CHOOSE i \in hits : \A j \in hits : i <= j]

\* outcomes of the database session: every query succeeds, the first query
\* raises, or the query for the "default" row raises
DbOutcomes == {"ok", "fail_first", "fail_second"}

GetWorkspaceSettings(workspace_id, db, dbOutcome) ==
    LET wid == IF workspace_id = None \/ workspace_id = "" THEN "default"
               ELSE workspace_id
        stub == StubFor(wid)
    IN IF dbOutcome # "fail_first" /\ wid \in DOMAIN db
       THEN WorkspaceConfig(db[wid].workspace_id, db[wid].tone_level,
                            db[wid].style_json, db[wid].blocklist_json,
                            db[wid].approval_threshold)
       ELSE IF dbOutcome = "ok" /\ wid # "default" /\ "default" \in DOMAIN db
       THEN WorkspaceConfig("default", db["default"].tone_level,
                            db["default"].style_json, db["default"].blocklist_json,
                            db["default"].approval_threshold)
       ELSE WorkspaceConfig(stub.workspace_id, stub.tone_level, stub.style_json,
                            stub.blocklist_json, stub.approval_threshold)

\* one session.exec(select(WorkspaceSettings).where(...)).first() and what it
\* did: returned a row, returned nothing, or raised
DbQuery(workspace_id, response) ==
    [target |-> "db", op |-> "select", workspace_id |-> workspace_id,
     response |-> response]

\* the queries get_workspace_settings sends to the database
SettingsQueries(workspace_id, db, dbOutcome) ==
    LET wid == IF workspace_id = None \/ workspace_id = "" THEN "default"
               ELSE workspace_id
        first == IF dbOutcome = "fail_first" THEN "raised"
                 ELSE IF wid \in DOMAIN db THEN "row" ELSE "none"
        second == IF dbOutcome = "fail_second" THEN "raised"
                  ELSE IF "default" \in DOMAIN db THEN "row" ELSE "none"
    IN IF first = "none" /\ wid # "default"
       THEN <<DbQuery(wid, first), DbQuery("default", second)>>
       ELSE <<DbQuery(wid, first)>>

(***************************************************************************)
(* Policy guard and routing (agents/reploom_crew.py)                       *)
(***************************************************************************)
\* f"Blocklisted phrase detected: '{phrase.strip()}'"
ViolationMsg(phrase) ==
    <<"Blocklisted phrase detected: '">> \o Strip(phrase) \o <<"'">>

\* the test of the loop body: phrase_clean and phrase_clean in draft_lower
PhraseHits(phrase, draft) ==
    LET phrase_clean == Lower(Strip(phrase))
        draft_lower == Lower(draft)
    IN phrase_clean # <<>> /\ IsSubstring(phrase_clean, draft_lower)

RECURSIVE GuardLoopFailFast(_, _, _, _)
\* the same loop leaving at the first hit
GuardLoopFailFast(draft, blocklist, i, violations) ==
    IF i > Len(blocklist) THEN violations
    ELSE IF PhraseHits(blocklist[i], draft)
    THEN Append(violations, ViolationMsg(blocklist[i]))
    ELSE GuardLoopFailFast(draft, blocklist, i + 1, violations)

RECURSIVE GuardLoop(_, _, _, _)
\* for phrase in blocklist: ... violations.append(violation_msg)
GuardLoop(draft, blocklist, i, violations) ==
    IF i > Len(blocklist) THEN violations
    ELSE GuardLoop(draft, blocklist, i + 1,
                   IF PhraseHits(blocklist[i], draft)
                   THEN Append(violations, ViolationMsg(blocklist[i]))
                   ELSE violations)

\* the violations list policy_guard_node returns
PolicyGuardViolations(draft, blocklist) == GuardLoop(draft, blocklist, 1, <<>>)

\* should_halt inverted
ShouldHaltInverted(st) == IF st.violations # <<>> THEN "continue" ELSE "halt"

ShouldHalt(st) == IF st.violations # <<>> THEN "halt" ELSE "continue"

END == "done"

\* the mapping of add_conditional_edges("policyGuard", should_halt, {...})
RouteTarget(r) == CASE r = "halt" -> END [] r = "continue" -> END

\* a graph whose classifier edge goes straight to the drafter
NextStageSkipping(stage) ==
    CASE stage = "classifier" -> "drafter"
      [] stage = "contextBuilder" -> "drafter"
      [] stage = "drafter" -> "policyGuard"
      [] stage = "policyGuard" -> "route"

\* the add_edge calls of create_reploom_crew; policyGuard leads to should_halt
NextStage(stage) ==
    CASE stage = "classifier" -> "contextBuilder"
      [] stage = "contextBuilder" -> "drafter"
      [] stage = "drafter" -> "policyGuard"
      [] stage = "policyGuard" -> "route"

EntryPoint == "classifier"

(***************************************************************************)
(* Chunker (kb/chunker.py)                                                 *)
(***************************************************************************)
\* hashlib.sha256(text.encode('utf-8')).hexdigest(): distinct texts, distinct digests
ComputeContentHash(text) == <<"sha256", text>>

Chunk(content, content_hash, start_idx, end_idx) ==
    [content |-> content, content_hash |-> content_hash,
     start_idx |-> start_idx, end_idx |-> end_idx]

Min(a, b) == IF a <= b THEN a ELSE b

\* the character the tokenizer's vocabulary merges: a run of word characters
\* is one token, every other character is a token of its own
WordChar == "w"

\* the longest token of the vocabulary, in characters
MaxTokenChars == 5

\* the length of the token that starts the non-empty text
TokenLen(text) ==
    LET most == Min(Len(text), MaxTokenChars)
        run == CHOOSE n \in 0..most :
                   /\ \A i \in 1..n : text[i] = WordChar
                   /\ n = most \/ text[n + 1] # WordChar
    IN IF run = 0 THEN 1 ELSE run

RECURSIVE Encode(_)
\* encoding.encode(text): the tokens of the text, left to right, each token
\* the characters it stands for
Encode(text) ==
    IF text = <<>> THEN <<>>
    ELSE <<SubSeq(text, 1, TokenLen(text))>>
             \o Encode(SubSeq(text, TokenLen(text) + 1, Len(text)))

RECURSIVE Decode(_)
\* encoding.decode(tokens): the characters of the tokens, concatenated
Decode(tokens) ==
    IF tokens = <<>> THEN <<>> ELSE Head(tokens) \o Decode(Tail(tokens))

\* a text as the units text[start_idx:end_idx] slices: one per character
CharUnits(text) == [i \in 1..Len(text) |-> <<text[i]>>]

\* a loop that stores each window's text trimmed
RECURSIVE ChunkLoopTrimmed(_, _, _, _, _)
ChunkLoopTrimmed(tokens, chunk_size, chunk_overlap, start_idx, chunks) ==
    IF ~(start_idx < Len(tokens)) THEN chunks
    ELSE LET end_idx == Min(start_idx + chunk_size, Len(tokens))
             chunk_text == Strip(Decode(SubSeq(tokens, start_idx + 1, end_idx)))
             appended == IF chunk_text # <<>>
                         THEN Append(chunks, Chunk(chunk_text,
                                  ComputeContentHash(chunk_text), start_idx, end_idx))
                         ELSE chunks
         IN IF end_idx = Len(tokens) THEN appended
            ELSE ChunkLoopTrimmed(tokens, chunk_size, chunk_overlap,
                           start_idx + chunk_size - chunk_overlap, appended)

\* a loop that keeps the whitespace-only windows too
RECURSIVE ChunkLoopKeepBlank(_, _, _, _, _)
ChunkLoopKeepBlank(tokens, chunk_size, chunk_overlap, start_idx, chunks) ==
    IF ~(start_idx < Len(tokens)) THEN chunks
    ELSE LET end_idx == Min(start_idx + chunk_size, Len(tokens))
             chunk_text == Decode(SubSeq(tokens, start_idx + 1, end_idx))
             appended == Append(chunks, Chunk(chunk_text,
                                  ComputeContentHash(chunk_text), start_idx, end_idx))
         IN IF end_idx = Len(tokens) THEN appended
            ELSE ChunkLoopKeepBlank(tokens, chunk_size, chunk_overlap,
                           start_idx + chunk_size - chunk_overlap, appended)

RECURSIVE ChunkLoop(_, _, _, _, _)
\* the while loop shared by chunk_text and _chunk_by_chars, over the tokens
\* or the characters of the text; requires chunk_overlap < chunk_size
ChunkLoop(tokens, chunk_size, chunk_overlap, start_idx, chunks) ==
    IF ~(start_idx < Len(tokens)) THEN chunks
    ELSE LET end_idx == Min(start_idx + chunk_size, Len(tokens))
             chunk_text == Decode(SubSeq(tokens, start_idx + 1, end_idx))
             appended == IF Strip(chunk_text) # <<>>
                         THEN Append(chunks, Chunk(chunk_text,
                                  ComputeContentHash(chunk_text), start_idx, end_idx))
                         ELSE chunks
         IN IF end_idx = Len(tokens) THEN appended
            ELSE ChunkLoop(tokens, chunk_size, chunk_overlap,
                           start_idx + chunk_size - chunk_overlap, appended)

\* _chunk_by_chars(text, chunk_size, chunk_overlap)
ChunkByChars(text, chunk_size, chunk_overlap) ==
    ChunkLoop(CharUnits(text), chunk_size, chunk_overlap, 0, <<>>)

\* the factor of the character-based approximation
CharsPerToken == 4

\* chunk_text(text, chunk_size, chunk_overlap); tiktokenOk is whether
\* tiktoken.get_encoding succeeded
ChunkText(text, chunk_size, chunk_overlap, tiktokenOk) ==
    IF tiktokenOk THEN ChunkLoop(Encode(text), chunk_size, chunk_overlap, 0, <<>>)
    ELSE ChunkByChars(text, chunk_size * CharsPerToken, chunk_overlap * CharsPerToken)

\* a loop that keeps the last occurrence of each hash
DedupLoopKeepLast(chunks, i, seen_hashes, unique_chunks) ==
    LET last(k) == \A j \in (k + 1)..Len(chunks) :
                       chunks[j].content_hash # chunks[k].content_hash
        F[k \in 0..Len(chunks)] ==
            IF k = 0 THEN <<>>
            ELSE IF last(k) THEN Append(F[k - 1], chunks[k]) ELSE F[k - 1]
    IN F[Len(chunks)]

RECURSIVE DedupLoop(_, _, _, _)
DedupLoop(chunks, i, seen_hashes, unique_chunks) ==
    IF i > Len(chunks) THEN unique_chunks
    ELSE IF chunks[i].content_hash \notin seen_hashes
    THEN DedupLoop(chunks, i + 1, seen_hashes \cup {chunks[i].content_hash},
                   Append(unique_chunks, chunks[i]))
    ELSE DedupLoop(chunks, i + 1, seen_hashes, unique_chunks)

DeduplicateChunks(chunks) == DedupLoop(chunks, 1, {}, <<>>)

(***************************************************************************)
(* KB engine (kb/retrieval.py, kb/client.py) over the Qdrant collection    *)
(***************************************************************************)
QDRANT_COLLECTION_NAME == "reploom_documents"

CHUNK_SIZE == 800
CHUNK_OVERLAP == 200
\* tokens per block of the modelled documents: a window advances by whole blocks
TokenUnit == CHUNK_OVERLAP

KbWorkspaces == {"ws-a", "ws-b"}
Titles == {"FAQ"}

\* documents, as sequences of blocks
Docs ==
    { <<>>,
      <<" ">>,
      <<"q">>,
      <<"r", "r", "r", "p", "q">> }

\* an id scheme that also hashes the workspace
PointIdPerWorkspace(chunk, workspace_id) ==
    <<"uuid5", workspace_id, chunk.content_hash>>

\* str(uuid.uuid5(uuid.NAMESPACE_DNS, chunk.content_hash))
PointId(chunk, workspace_id) == <<"uuid5", chunk.content_hash>>

\* PointStruct(id, vector, payload); the vector and created_at are not modelled
BuildPoint(chunk, workspace_id, source, title) ==
    [id |-> PointId(chunk, workspace_id), workspace_id |-> workspace_id,
     source |-> source, title |-> title, content |-> chunk.content,
     content_hash |-> chunk.content_hash]

\* an upsert that stores the first point of the batch only
QdrantUpsertFirstOnly(idx, pts) ==
    IF pts = <<>> THEN idx
    ELSE {p \in idx : p.id # pts[1].id} \cup {pts[1]}

\* client.upsert: a point replaces the stored point of the same id
QdrantUpsert(idx, pts) ==
    LET last(i) == \A j \in (i + 1)..Len(pts) : pts[j].id # pts[i].id
        written == {pts[i] : i \in {k \in 1..Len(pts) : last(k)}}
    IN {p \in idx : \A q \in written : q.id # p.id} \cup written

NoFilter == [must |-> <<>>]

\* a search that sends no query_filter
SearchFilterNone(workspace_id) == NoFilter

\* Filter(must=[FieldCondition(key="workspace_id", match=MatchValue(value=workspace_id))])
SearchFilter(workspace_id) ==
    [must |-> << [key |-> "workspace_id", value |-> workspace_id] >>]

\* the points of idx that satisfy every condition of the filter
FilterHits(idx, query_filter) ==
    {p \in idx : \A i \in 1..Len(query_filter.must) :
                    p.workspace_id = query_filter.must[i].value}

RECURSIVE Arrangements(_, _)
\* the sequences of n distinct elements of S
Arrangements(S, n) ==
    IF n = 0 THEN {<<>>}
    ELSE UNION {{<<x>> \o t : t \in Arrangements(S \ {x}, n - 1)} : x \in S}

\* client.search: the best `limit` hits by score; the scores come from the
\* embedding model, so any ranking of the filtered points is possible
QdrantSearch(idx, query_filter, limit) ==
    LET hits == FilterHits(idx, query_filter)
    IN Arrangements(hits, Min(limit, Cardinality(hits)))

KBSearchResult(hit) ==
    [chunk_id |-> hit.id, content |-> hit.content, workspace_id |-> hit.workspace_id,
     source |-> hit.source, title |-> hit.title]

\* the request search_kb sends to the index
SearchRequest(workspace_id, k) ==
    [target |-> "index", op |-> "search", collection |-> QDRANT_COLLECTION_NAME,
     query_filter |-> SearchFilter(workspace_id), limit |-> k]

\* the result lists search_kb(query, workspace_id, k) can return
SearchKb(idx, workspace_id, k) ==
    LET req == SearchRequest(workspace_id, k)
    IN {[i \in 1..Len(hits) |-> KBSearchResult(hits[i])] :
            hits \in QdrantSearch(idx, req.query_filter, req.limit)}

\* the points upsert_document builds for one document
DocumentPoints(file_content, workspace_id, source, title, tiktokenOk) ==
    LET chunks == DeduplicateChunks(
                      ChunkText(file_content, CHUNK_SIZE \div TokenUnit,
                                CHUNK_OVERLAP \div TokenUnit, tiktokenOk))
    IN [i \in 1..Len(chunks) |-> BuildPoint(chunks[i], workspace_id, source, title)]

\* the statistics upsert_document returns
UploadStats(file_content, tiktokenOk) ==
    LET chunks == ChunkText(file_content, CHUNK_SIZE \div TokenUnit,
                            CHUNK_OVERLAP \div TokenUnit, tiktokenOk)
        original_count == Len(chunks)
        dedup_count == Len(DeduplicateChunks(chunks))
    IN IF dedup_count = 0
       THEN [chunks_total |-> 0, chunks_uploaded |-> 0, duplicates_skipped |-> 0]
       ELSE [chunks_total |-> original_count, chunks_uploaded |-> dedup_count,
             duplicates_skipped |-> original_count - dedup_count]

\* the calls ensure_collection_exists makes
EnsureCollectionCalls(existing) ==
    << [target |-> "index", op |-> "get_collections"] >> \o
    (IF QDRANT_COLLECTION_NAME \in existing THEN <<>>
     ELSE << [target |-> "index", op |-> "create_collection",
              collection |-> QDRANT_COLLECTION_NAME] >>)

EmbedCall(n) == [target |-> "embedding", op |-> "create", inputs |-> n]

\* generate_embeddings(chunk_texts, batch_size=100); the model counts
\* chunks in units of BatchUnit, so that a batch holds one chunk
EMBED_BATCH_SIZE == 100
BatchUnit == EMBED_BATCH_SIZE

\* the client.embeddings.create calls of generate_embeddings for n texts:
\* for i in range(0, len(texts), batch_size), one call per batch
EmbedBatches(n) ==
    LET batch_size == EMBED_BATCH_SIZE \div BatchUnit
        count == (n + batch_size - 1) \div batch_size
    IN [b \in 1..count |-> EmbedCall(Min(batch_size, n - (b - 1) * batch_size))]

\* lastOp before any KB operation
NoOp == [op |-> "none", workspace_id |-> None, arg |-> <<>>, status |-> "ok",
         result |-> <<>>, again |-> FALSE]

UpsertOutcomes == {"ok", "index_down", "embed_fail", "upsert_fail"}

\* upsert_document(file_content, workspace_id, "upload", title)
UpsertDocument(file_content, workspace_id, title, tiktokenOk, outcome) ==
    LET pts == DocumentPoints(file_content, workspace_id, "upload", title, tiktokenOk)
        \* again: the previous operation was the same call and it succeeded
        again == /\ lastOp.op = "upsert"
                 /\ lastOp.status = "ok"
                 /\ lastOp.workspace_id = workspace_id
                 /\ lastOp.arg = file_content
        op(status, result) ==
            [op |-> "upsert", workspace_id |-> workspace_id, arg |-> file_content,
             status |-> status, result |-> result, again |-> again]
        upsertCall == [target |-> "index", op |-> "upsert",
                       collection |-> QDRANT_COLLECTION_NAME, points |-> Len(pts)]
    IN IF outcome = "index_down"
       THEN /\ calls' = << [target |-> "index", op |-> "get_collections"] >>
            /\ lastOp' = op("error", <<>>)
            /\ UNCHANGED <<points, collections>>
       ELSE /\ collections' = collections \cup {QDRANT_COLLECTION_NAME}
            /\ IF pts = <<>>
               THEN /\ calls' = EnsureCollectionCalls(collections)
                    /\ lastOp' = op("ok", UploadStats(file_content, tiktokenOk))
                    /\ UNCHANGED points
               ELSE IF outcome = "embed_fail"
               THEN \* some batch raises; the batches before it were answered
                    /\ \E failed \in 1..Len(EmbedBatches(Len(pts))) :
                          calls' = EnsureCollectionCalls(collections)
                                      \o SubSeq(EmbedBatches(Len(pts)), 1, failed)
                    /\ lastOp' = op("error", <<>>)
                    /\ UNCHANGED points
               ELSE IF outcome = "upsert_fail"
               THEN /\ calls' = EnsureCollectionCalls(collections)
                                    \o EmbedBatches(Len(pts)) \o <<upsertCall>>
                    /\ lastOp' = op("error", <<>>)
                    /\ UNCHANGED points
               ELSE /\ calls' = EnsureCollectionCalls(collections)
                                    \o EmbedBatches(Len(pts)) \o <<upsertCall>>
                    /\ lastOp' = op("ok", UploadStats(file_content, tiktokenOk))
                    /\ points' = QdrantUpsert(points, pts)

SearchOutcomes == {"ok", "embed_fail", "index_fail"}

\* search_kb as called by the /kb/search endpoint
SearchKbEndpoint(workspace_id, k, outcome) ==
    LET op(status, result) ==
            [op |-> "search", workspace_id |-> workspace_id, arg |-> k,
             status |-> status, result |-> result, again |-> FALSE]
    IN /\ UNCHANGED <<points, collections>>
       /\ IF outcome = "embed_fail"
          THEN /\ calls' = <<EmbedCall(1)>>
               /\ lastOp' = op("error", <<>>)
          ELSE IF outcome = "index_fail" \/ QDRANT_COLLECTION_NAME \notin collections
          THEN /\ calls' = <<EmbedCall(1), SearchRequest(workspace_id, k)>>
               /\ lastOp' = op("error", <<>>)
          ELSE /\ calls' = <<EmbedCall(1), SearchRequest(workspace_id, k)>>
               /\ \E results \in SearchKb(points, workspace_id, k) :
                      lastOp' = op("ok", results)

\* the top-k of context_builder_node and the default of the endpoint
TOP_K == 5

(***************************************************************************)
(* Pipeline stages (agents/reploom_crew.py)                                *)
(***************************************************************************)
Messages == {"I need help"}
ThreadIds == {"t1", "t2"}
RunWorkspaces == {None, "ws-a", "ws-test", "ws-new"}

IntentCategories == {"support", "cs", "exec", "other"}

\* what llm.invoke can do for the classifier: raise, or return a content
\* that is no JSON, a JSON value that is no object, or a JSON object
ClassifierIntentValues ==
    {Missing, JNull, JStr("support"), JStr("cs"), JStr("exec"), JStr("other"),
     JStr("spam")}
ClassifierConfidenceValues ==
    {Missing, JNull, JStr("high"), JNum(0), JNum(9), JNum(10), JNum(15)}
ClassifierOutcomes ==
    {[kind |-> "error"], [kind |-> "not_json"], [kind |-> "json_nonobject"]}
    \cup {[kind |-> "json_object", intent |-> i, confidence |-> c] :
            i \in ClassifierIntentValues, c \in ClassifierConfidenceValues}

\* result.get(key, default)
DictGet(value, default) == IF value = Missing THEN default ELSE value

\* the try/except of classifier_node: json.loads, result.get, and the defaults
ClassifierParse(r) ==
    IF r.kind = "json_object"
    THEN [intent |-> DictGet(r.intent, JStr("other")),
          confidence |-> DictGet(r.confidence, JNum(5))]
    ELSE [intent |-> JStr("other"), confidence |-> JNum(5)]

\* f"{confidence:.2f}" raises for a value that is no number
FormatRaises(confidence) == confidence.t # "num"

\* one llm.invoke: the stage that made it, the tone it asked for, and what
\* the call did (raised, or the content it returned)
LlmCall(stage, detail, response) ==
    [target |-> "llm", stage |-> stage, detail |-> detail, response |-> response]

\* the two ways out of llm.invoke for the drafter
LlmRaised == [kind |-> "error"]
LlmContent(content) == [kind |-> "content", content |-> content]

\* a classifier that also empties the blocklist of the state it returns
ClassifierReturnNoBlocklist(st, r) ==
    [st EXCEPT !.intent = ClassifierParse(r).intent,
               !.confidence = ClassifierParse(r).confidence,
               !.blocklist = <<>>]

\* return {**state, "intent": intent, "confidence": confidence}
ClassifierReturn(st, r) ==
    [st EXCEPT !.intent = ClassifierParse(r).intent,
               !.confidence = ClassifierParse(r).confidence]

\* classifier_node over the replies `outcomes` of the generation call
ClassifierNode(outcomes) ==
    /\ pc = "classifier"
    /\ trace' = Append(trace, "classifier")
    /\ \E r \in outcomes :
          /\ calls' = Append(calls, LlmCall("classifier", None, r))
          /\ IF r.kind = "error" \/ FormatRaises(ClassifierParse(r).confidence)
             THEN /\ pc' = "failed"
                  /\ UNCHANGED state
             ELSE /\ state' = ClassifierReturn(state, r)
                  /\ pc' = NextStage("classifier")
    /\ UNCHANGED <<route, settingsDb>>
    /\ UNCHANGED <<kbVars, reviewVars>>

\* the node in a graph compiled without the server's thread store
Classifier == ClassifierNode(ClassifierOutcomes) /\ UNCHANGED runVars

\* f"[{result.source} - {result.title}] {result.content}"
FormatSnippet(result) ==
    <<"[", result.source>>
    \o (IF result.title # None /\ result.title # "" THEN <<" - ", result.title>> ELSE <<>>)
    \o <<"] ">> \o result.content

\* a call of the run together with what it did: "ok" or "raised"
Answered(call, response) == call @@ [response |-> response]

\* a retrieval that is always attempted
HasWorkspaceAlways(workspace_id) == TRUE

\* if workspace_id:
HasWorkspace(workspace_id) == workspace_id # None /\ workspace_id # ""

\* return {**state, "context_snippets": context_snippets}
ContextBuilderReturn(st, context_snippets) ==
    [st EXCEPT !.context_snippets = context_snippets]

\* the snippets built from the results of search_kb
Snippets(results) == [i \in 1..Len(results) |-> FormatSnippet(results[i])]

ContextBuilderNode ==
    /\ pc = "contextBuilder"
    /\ trace' = Append(trace, "contextBuilder")
    /\ pc' = NextStage("contextBuilder")
    /\ IF HasWorkspace(state.workspace_id)
       THEN \E outcome \in SearchOutcomes :
              IF outcome = "embed_fail"
              THEN /\ calls' = Append(calls, Answered(EmbedCall(1), "raised"))
                   /\ state' = ContextBuilderReturn(state, <<>>)
              ELSE IF outcome = "index_fail"
                      \/ QDRANT_COLLECTION_NAME \notin collections
              THEN /\ calls' = calls \o
                        <<Answered(EmbedCall(1), "ok"),
                          Answered(SearchRequest(state.workspace_id, TOP_K), "raised")>>
                   /\ state' = ContextBuilderReturn(state, <<>>)
              ELSE /\ calls' = calls \o
                        <<Answered(EmbedCall(1), "ok"),
                          Answered(SearchRequest(state.workspace_id, TOP_K), "ok")>>
                   /\ \E results \in SearchKb(points, state.workspace_id, TOP_K) :
                         state' = ContextBuilderReturn(state, Snippets(results))
       ELSE /\ calls' = calls
            /\ state' = ContextBuilderReturn(state, <<>>)
    /\ UNCHANGED <<route, settingsDb>>
    /\ UNCHANGED <<kbVars, reviewVars>>

ContextBuilder == ContextBuilderNode /\ UNCHANGED runVars

\* state.get("tone_level", 3): the key may be absent from the state
ToneLevelOf(st) == IF "tone_level" \in DOMAIN st THEN st.tone_level ELSE 3

\* a tone table that clamps a level out of range to the nearest level
ToneNameClamped(tone_level) ==
    CASE tone_level <= 1 -> "Very Formal"
      [] tone_level = 2 -> "Formal"
      [] tone_level = 3 -> "Neutral"
      [] tone_level = 4 -> "Casual"
      [] OTHER -> "Very Casual"

\* tone_map.get(tone_level, tone_map[3])[0]
ToneName(tone_level) ==
    CASE tone_level = 1 -> "Very Formal"
      [] tone_level = 2 -> "Formal"
      [] tone_level = 3 -> "Neutral"
      [] tone_level = 4 -> "Casual"
      [] tone_level = 5 -> "Very Casual"
      [] OTHER -> "Neutral"

\* what llm.invoke can return for the drafter
DrafterContents ==
    { <<>>,
      <<"a">>,
      <<"A", "b">>,
      <<" ", "b", " ">>,
      <<"Enjoy", " ", "our", " ", "FREE", " ", "trial">>,
      <<"<fence>html", "Click", " ", "here", "<fence>">>,
      <<"<fence>", "a", "<fence>">> }

\* response.content.strip() and the removal of a markdown fence; "<fence>"
\* stands for the three backquotes, "<fence>html" for the opening marker
CleanDraft(content) ==
    LET draft_html == Strip(content)
    IN IF StartsWith(draft_html, <<"<fence>html">>)
       THEN Strip(RemoveUnit(RemoveUnit(draft_html, "<fence>html"), "<fence>"))
       ELSE draft_html

\* return {**state, "draft_html": draft_html}
DrafterReturn(st, content) == [st EXCEPT !.draft_html = CleanDraft(content)]

\* drafter_node over the contents `contents` the generation call can return
DrafterNode(contents) ==
    /\ pc = "drafter"
    /\ trace' = Append(trace, "drafter")
    /\ \/ /\ calls' = Append(calls, LlmCall("drafter", ToneName(ToneLevelOf(state)),
                                             LlmRaised))
          /\ pc' = "failed"
          /\ UNCHANGED state
       \/ \E content \in contents :
             /\ calls' = Append(calls, LlmCall("drafter", ToneName(ToneLevelOf(state)),
                                                LlmContent(content)))
             /\ state' = DrafterReturn(state, content)
             /\ pc' = NextStage("drafter")
    /\ UNCHANGED <<route, settingsDb>>
    /\ UNCHANGED <<kbVars, reviewVars>>

Drafter == DrafterNode(DrafterContents) /\ UNCHANGED runVars

\* return {**state, "violations": violations}
PolicyGuardReturn(st) ==
    [st EXCEPT !.violations = PolicyGuardViolations(st.draft_html, st.blocklist)]

PolicyGuardNode ==
    /\ pc = "policyGuard"
    /\ trace' = Append(trace, "policyGuard")
    /\ IF state.draft_html = NoDraft
       THEN /\ pc' = "failed"       \* None.lower() raises
            /\ UNCHANGED state
       ELSE /\ state' = PolicyGuardReturn(state)
            /\ pc' = NextStage("policyGuard")
    /\ UNCHANGED <<route, calls, settingsDb>>
    /\ UNCHANGED <<kbVars, reviewVars>>

PolicyGuard == PolicyGuardNode /\ UNCHANGED runVars

\* the conditional edge after policyGuard
RouteEdge ==
    /\ pc = "route"
    /\ route' = ShouldHalt(state)
    /\ pc' = RouteTarget(ShouldHalt(state))
    /\ UNCHANGED <<state, trace, calls, settingsDb>>
    /\ UNCHANGED <<kbVars, reviewVars>>

Route == RouteEdge /\ UNCHANGED runVars

PrepareInitialState(message_summary, workspace_id, thread_id, db, dbOutcome) ==
    LET workspace_config == GetWorkspaceSettings(workspace_id, db, dbOutcome)
    IN [original_message_summary |-> message_summary,
        workspace_id |-> workspace_id,
        thread_id |-> thread_id,
        tone_level |-> workspace_config.tone_level,
        style_json |-> workspace_config.style_json,
        blocklist |-> workspace_config.blocklist,
        intent |-> JNull,
        confidence |-> JNull,
        context_snippets |-> <<>>,
        draft_html |-> NoDraft,
        violations |-> <<>>]

\* run_draft: prepare the initial state and enter the graph
StartRunWith(workspaces, dbOutcomes) ==
    /\ \E m \in Messages, w \in workspaces, t \in ThreadIds, o \in dbOutcomes :
          /\ state' = PrepareInitialState(m, w, t, settingsDb, o)
          /\ calls' = SettingsQueries(w, settingsDb, o)
    /\ pc' = EntryPoint
    /\ trace' = <<>>
    /\ route' = "none"
    /\ UNCHANGED settingsDb
    /\ UNCHANGED <<kbVars, reviewVars>>

StartRun ==
    /\ pc \in {"idle", "done", "failed"}
    /\ StartRunWith(RunWorkspaces, DbOutcomes)
    /\ UNCHANGED runVars

(***************************************************************************)
(* Review store (api/routes/reploom.py, models/draft_reviews.py)           *)
(***************************************************************************)
MaxReviews == 1
MaxClock == 4

\* reviewed_at of a record nobody has reviewed
NoTime == 0
\* Field(default=1) of draft_version
DefaultDraftVersion == 1

\* the "sub" of the session's user; None when the session carries none
SessionSubs == {"auth0|alice", None}
ReviewDrafts == { <<"a">>, <<"free", " ", "trial">> }
ReviewViolations == { <<>>, <<ViolationMsg(<<"free", " ", "trial">>)>> }
FeedbackValues == {None, "looks good"}
EditNotes == {"rephrased"}
ReviewThreads == {"t1"}

\* user.get("sub", "unknown")
UserId(sub) == IF sub = None THEN "unknown" ELSE sub

\* review ids a request can carry: 0 stands for a string that is no UUID,
\* an id beyond the table for a UUID that no row has
ReviewIds == 0..MaxReviews

\* a response, with the identity and the review id of the request it answers
Response(op, caller, target, code, body) ==
    [op |-> op, caller |-> caller, target |-> target, code |-> code, body |-> body]

\* DraftReview(...) as create_review builds it, with the model's defaults
NewReview(id, user_id, thread_id, draft_html, violations, t) ==
    [id |-> id, user_id |-> user_id, thread_id |-> thread_id, draft_html |-> draft_html,
     violations |-> violations, status |-> "pending", feedback |-> None,
     edit_notes |-> None, draft_version |-> DefaultDraftVersion,
     created_at |-> t, updated_at |-> t, reviewed_at |-> NoTime]

CreateReview ==
    /\ Len(reviews) < MaxReviews
    /\ now < MaxClock
    /\ \E sub \in SessionSubs, t \in ReviewThreads, d \in ReviewDrafts,
          v \in ReviewViolations :
          LET review == NewReview(Len(reviews) + 1, UserId(sub), t, d, v, now)
          IN /\ reviews' = Append(reviews, review)
             /\ resp' = Response("create", UserId(sub), review.id, 200, review)
    /\ now' = now + 1
    /\ UNCHANGED <<pipelineVars, runVars, settingsDb, kbVars>>

\* the steps every /reviews/{review_id} handler takes before its ownership test
Lookup(review_id) ==
    IF review_id = 0 THEN 400
    ELSE IF review_id > Len(reviews) THEN 404
    ELSE 200

\* an ownership test that lets every session through
OwnerCheckOff(review, user_id) == TRUE

\* get_review: review.user_id != user_id -> 403
GetAuthorized(review, user_id) == review.user_id = user_id

\* approve_review: review.user_id != user_id -> 403
ApproveAuthorized(review, user_id) == review.user_id = user_id

\* reject_review: review.user_id != user_id -> 403
RejectAuthorized(review, user_id) == review.user_id = user_id

\* request_edit: review.user_id != user_id -> 403
EditAuthorized(review, user_id) == review.user_id = user_id

GetReview ==
    /\ \E sub \in SessionSubs, id \in ReviewIds :
          IF Lookup(id) # 200 THEN resp' = Response("get", UserId(sub), id, Lookup(id), None)
          ELSE IF ~GetAuthorized(reviews[id], UserId(sub))
          THEN resp' = Response("get", UserId(sub), id, 403, None)
          ELSE resp' = Response("get", UserId(sub), id, 200, reviews[id])
    /\ UNCHANGED <<reviews, now>>
    /\ UNCHANGED <<pipelineVars, runVars, settingsDb, kbVars>>

\* list_reviews: select(DraftReview).where(DraftReview.user_id == user_id)
ListReviews ==
    /\ \E sub \in SessionSubs :
          resp' = Response("list", UserId(sub), 0, 200,
                           {reviews[i] : i \in {j \in 1..Len(reviews) :
                                reviews[j].user_id = UserId(sub)}})
    /\ UNCHANGED <<reviews, now>>
    /\ UNCHANGED <<pipelineVars, runVars, settingsDb, kbVars>>

\* the assignments of approve_review
ApplyApprove(review, feedback, t) ==
    [review EXCEPT !.status = "approved", !.feedback = feedback,
                   !.reviewed_at = t, !.updated_at = t]

\* the assignments of reject_review
ApplyReject(review, feedback, t) ==
    [review EXCEPT !.status = "rejected", !.feedback = feedback,
                   !.reviewed_at = t, !.updated_at = t]

\* an edit that leaves the recorded violations in place
ApplyEditKeepViolations(review, draft_html, edit_notes, t) ==
    [review EXCEPT !.draft_html = draft_html, !.edit_notes = edit_notes,
                   !.status = "editing", !.draft_version = @ + 1,
                   !.updated_at = t]

\* an edit that forgets to count the version
ApplyEditNoCount(review, draft_html, edit_notes, t) ==
    [review EXCEPT !.draft_html = draft_html, !.edit_notes = edit_notes,
                   !.status = "editing", !.updated_at = t, !.violations = <<>>]

\* the assignments of request_edit
ApplyEdit(review, draft_html, edit_notes, t) ==
    [review EXCEPT !.draft_html = draft_html, !.edit_notes = edit_notes,
                   !.status = "editing", !.draft_version = @ + 1,
                   !.updated_at = t, !.violations = <<>>]

ApproveReview ==
    \E sub \in SessionSubs, id \in ReviewIds, feedback \in FeedbackValues :
       IF Lookup(id) # 200
       THEN /\ resp' = Response("approve", UserId(sub), id, Lookup(id), None)
            /\ UNCHANGED <<reviews, now>>
            /\ UNCHANGED <<pipelineVars, runVars, settingsDb, kbVars>>
       ELSE IF ~ApproveAuthorized(reviews[id], UserId(sub))
       THEN /\ resp' = Response("approve", UserId(sub), id, 403, None)
            /\ UNCHANGED <<reviews, now>>
            /\ UNCHANGED <<pipelineVars, runVars, settingsDb, kbVars>>
       ELSE /\ now < MaxClock
            /\ reviews' = [reviews EXCEPT ![id] = ApplyApprove(@, feedback, now)]
            /\ resp' = Response("approve", UserId(sub), id, 200, reviews'[id])
            /\ now' = now + 1
            /\ UNCHANGED <<pipelineVars, runVars, settingsDb, kbVars>>

RejectReview ==
    \E sub \in SessionSubs, id \in ReviewIds, feedback \in FeedbackValues :
       IF Lookup(id) # 200
       THEN /\ resp' = Response("reject", UserId(sub), id, Lookup(id), None)
            /\ UNCHANGED <<reviews, now>>
            /\ UNCHANGED <<pipelineVars, runVars, settingsDb, kbVars>>
       ELSE IF ~RejectAuthorized(reviews[id], UserId(sub))
       THEN /\ resp' = Response("reject", UserId(sub), id, 403, None)
            /\ UNCHANGED <<reviews, now>>
            /\ UNCHANGED <<pipelineVars, runVars, settingsDb, kbVars>>
       ELSE /\ now < MaxClock
            /\ reviews' = [reviews EXCEPT ![id] = ApplyReject(@, feedback, now)]
            /\ resp' = Response("reject", UserId(sub), id, 200, reviews'[id])
            /\ now' = now + 1
            /\ UNCHANGED <<pipelineVars, runVars, settingsDb, kbVars>>

RequestEdit ==
    \E sub \in SessionSubs, id \in ReviewIds, d \in ReviewDrafts, n \in EditNotes :
       IF Lookup(id) # 200
       THEN /\ resp' = Response("request_edit", UserId(sub), id, Lookup(id), None)
            /\ UNCHANGED <<reviews, now>>
            /\ UNCHANGED <<pipelineVars, runVars, settingsDb, kbVars>>
       ELSE IF ~EditAuthorized(reviews[id], UserId(sub))
       THEN /\ resp' = Response("request_edit", UserId(sub), id, 403, None)
            /\ UNCHANGED <<reviews, now>>
            /\ UNCHANGED <<pipelineVars, runVars, settingsDb, kbVars>>
       ELSE /\ now < MaxClock
            /\ reviews' = [reviews EXCEPT ![id] = ApplyEdit(@, d, n, now)]
            /\ resp' = Response("request_edit", UserId(sub), id, 200, reviews'[id])
            /\ now' = now + 1
            /\ UNCHANGED <<pipelineVars, runVars, settingsDb, kbVars>>

(***************************************************************************)
(* Initial states and specifications                                       *)
(***************************************************************************)
\* rows an administrator stored in workspace_settings
DefaultRow ==
    [workspace_id |-> "default", tone_level |-> 1, style_json |-> NoStyle,
     blocklist_json |-> << <<"FREE", " ", "trial">> >>,
     approval_threshold |-> JNull]
WsARow ==
    [workspace_id |-> "ws-a", tone_level |-> 4,
     style_json |-> {<<"brand_voice", "friendly">>},
     blocklist_json |-> << <<"A", "b">>, <<" ">>, <<" ", "a">> >>,
     approval_threshold |-> JNum(80)]

EmptyDb == [w \in {} |-> DefaultRow]
SettingsDbs ==
    { EmptyDb,
      [w \in {"default"} |-> DefaultRow],
      [w \in {"ws-a"} |-> WsARow],
      [w \in {"default", "ws-a"} |-> IF w = "default" THEN DefaultRow ELSE WsARow] }

\* a collection that holds documents of two workspaces
MixedIndex ==
    QdrantUpsert(
      QdrantUpsert(
        QdrantUpsert({}, DocumentPoints(<<"r", "r", "r", "p", "q">>, "ws-a",
                                        "upload", "FAQ", TRUE)),
        DocumentPoints(<<"q">>, "ws-b", "upload", "FAQ", TRUE)),
      DocumentPoints(<<"p">>, "ws-test", "url", None, TRUE))

IdleState == PrepareInitialState("", None, None, EmptyDb, "ok")

InitIdle ==
    /\ pc = "idle"
    /\ state = IdleState
    /\ trace = <<>>
    /\ route = "none"
    /\ calls = <<>>

InitKbEmpty ==
    /\ points = {}
    /\ collections = {}
    /\ lastOp = NoOp

InitReviewEmpty ==
    /\ reviews = <<>>
    /\ resp = Response("none", None, 0, 200, None)
    /\ now = 1

NoCheckpoints == [t \in {} |-> IdleState]
NoReply == [op |-> "none", thread_id |-> None, code |-> 200, body |-> None]

\* a process whose module-level get_checkpointer() is not looked at
NotBooted == [phase |-> "unobserved"]

\* no handler is in progress
NoInflight == <<>>

InitRunsEmpty ==
    /\ checkpoints = NoCheckpoints
    /\ reply = NoReply
    /\ boot = NotBooted
    /\ inflight = NoInflight

\* the pipeline over any stored settings and an empty or a mixed collection
InitPipeline ==
    /\ InitIdle
    /\ settingsDb \in SettingsDbs
    /\ \/ points = {} /\ collections = {}
       \/ points = MixedIndex /\ collections = {QDRANT_COLLECTION_NAME}
    /\ lastOp = NoOp
    /\ InitReviewEmpty
    /\ InitRunsEmpty

NextPipeline ==
    \/ StartRun
    \/ Classifier
    \/ ContextBuilder
    \/ Drafter
    \/ PolicyGuard
    \/ Route

SpecPipeline == InitPipeline /\ [][NextPipeline]_vars

\* the policy guard on every draft and blocklist within the bounds
MaxDraftLen == 3
MaxBlocklistLen == 2

GuardDrafts == UNION {[1..n -> Chars] : n \in 0..MaxDraftLen}
GuardPhrases ==
    { <<>>, <<" ">>, <<"a">>, <<"A">>, <<" ", "a", " ">>, <<"b">>, <<"a", "b">>,
      <<"A", " ", "b">> }
GuardBlocklists == UNION {[1..n -> GuardPhrases] : n \in 0..MaxBlocklistLen}

InitGuard ==
    /\ pc = "policyGuard"
    /\ \E d \in GuardDrafts, bl \in GuardBlocklists :
          state = [IdleState EXCEPT !.original_message_summary = "I need help",
                                    !.thread_id = "t1",
                                    !.intent = JStr("other"),
                                    !.confidence = JNum(5),
                                    !.draft_html = d,
                                    !.blocklist = bl]
    /\ trace = <<"classifier", "contextBuilder", "drafter">>
    /\ route = "none"
    /\ calls = <<DbQuery("default", "none"),
                 LlmCall("classifier", None, [kind |-> "not_json"]),
                 LlmCall("drafter", "Neutral", LlmContent(state.draft_html))>>
    /\ settingsDb = EmptyDb
    /\ InitKbEmpty
    /\ InitReviewEmpty
    /\ InitRunsEmpty

NextGuard ==
    \/ PolicyGuard
    \/ Route

SpecGuard == InitGuard /\ [][NextGuard]_vars

\* the knowledge base
SearchKs == {1, TOP_K}

UpsertDocumentAny ==
    /\ \E d \in Docs, w \in KbWorkspaces, t \in Titles, tok \in BOOLEAN,
          o \in UpsertOutcomes : UpsertDocument(d, w, t, tok, o)
    /\ UNCHANGED <<pc, state, trace, route, settingsDb, reviewVars, runVars>>

SearchKbAny ==
    /\ \E w \in KbWorkspaces, k \in SearchKs, o \in SearchOutcomes :
          SearchKbEndpoint(w, k, o)
    /\ UNCHANGED <<pc, state, trace, route, settingsDb, reviewVars, runVars>>

InitKB ==
    /\ InitIdle
    /\ settingsDb = EmptyDb
    /\ InitKbEmpty
    /\ InitReviewEmpty
    /\ InitRunsEmpty

NextKB ==
    \/ UpsertDocumentAny
    \/ SearchKbAny

SpecKB == InitKB /\ [][NextKB]_vars

\* the review store
InitReview ==
    /\ InitIdle
    /\ settingsDb = EmptyDb
    /\ InitKbEmpty
    /\ InitReviewEmpty
    /\ InitRunsEmpty

NextReview ==
    \/ CreateReview
    \/ GetReview
    \/ ListReviews
    \/ ApproveReview
    \/ RejectReview
    \/ RequestEdit

SpecReview == InitReview /\ [][NextReview]_vars

(***************************************************************************)
(* Runs served through the graph server (api/routes/reploom.py)            *)
(***************************************************************************)
\* a store that keeps one snapshot for all threads
SaveCheckpointShared(store, thread_id, values) ==
    [t \in DOMAIN store \cup {thread_id} |-> values]

\* the graph compiled with a checkpointer stores the values of a thread
\* under configurable.thread_id
SaveCheckpoint(store, thread_id, values) ==
    [t \in DOMAIN store \cup {thread_id} |->
        IF t = thread_id THEN values ELSE store[t]]

\* the snapshot written after the input and after every node that returned
Persist ==
    /\ checkpoints' = IF pc' = "failed" THEN checkpoints
                      ELSE SaveCheckpoint(checkpoints, state'.thread_id, state')
    /\ UNCHANGED <<reply, boot, inflight>>

\* inputs of the served runs
ServedWorkspaces == {None, "ws-a"}
ServedClassifierOutcomes ==
    {[kind |-> "error"], [kind |-> "not_json"],
     [kind |-> "json_object", intent |-> JStr("support"), confidence |-> JNum(9)]}
ServedDrafterContents ==
    { <<" ">>, <<"a">>, <<"Enjoy", " ", "our", " ", "FREE", " ", "trial">> }

\* run_draft: thread id, prepare_initial_state, POST /threads/{id}/runs/wait
RunDraftStart ==
    /\ pc = "idle"
    /\ StartRunWith(ServedWorkspaces, {"ok"})
    /\ Persist

\* run_draft when the graph server cannot be reached: httpx.RequestError
RunDraftUnreachable ==
    /\ pc = "idle"
    /\ \E t \in ThreadIds :
          reply' = [op |-> "run_draft", thread_id |-> t, code |-> 503, body |-> None]
    /\ UNCHANGED <<pipelineVars, checkpoints, boot, inflight, settingsDb, kbVars, reviewVars>>

ServedClassifier == ClassifierNode(ServedClassifierOutcomes) /\ Persist
ServedContextBuilder == ContextBuilderNode /\ Persist
ServedDrafter == DrafterNode(ServedDrafterContents) /\ Persist
ServedPolicyGuard == PolicyGuardNode /\ Persist
ServedRoute == RouteEdge /\ UNCHANGED runVars

\* the body of the server's answer to runs/wait: the final values of the
\* run, or an error object when the run raised
ResultValues(values) == [kind |-> "values", values |-> values]
ResultError == [kind |-> "error_object"]

\* RunDraftResponse(draft_html=result.get("draft_html"), ...)
RunDraftResponse(result, thread_id) ==
    IF result.kind = "values"
    THEN [draft_html |-> result.values.draft_html,
          confidence |-> result.values.confidence,
          intent |-> result.values.intent,
          violations |-> result.values.violations,
          thread_id |-> thread_id]
    ELSE [draft_html |-> NoDraft, confidence |-> JNull, intent |-> JNull,
          violations |-> <<>>, thread_id |-> thread_id]

\* how the graph server answers runs/wait for a run that raised: a status
\* other than 200, or 200 with an error object as body
FailedRunAnswers == {"status_error", "error_body"}

\* run_draft after the POST returned
RunDraftReturn ==
    /\ pc \in {"done", "failed"}
    /\ pc' = "idle"
    /\ IF pc = "done"
       THEN reply' = [op |-> "run_draft", thread_id |-> state.thread_id, code |-> 200,
                      body |-> RunDraftResponse(ResultValues(state), state.thread_id)]
       ELSE \E answer \in FailedRunAnswers :
              IF answer = "status_error"
              THEN reply' = [op |-> "run_draft", thread_id |-> state.thread_id,
                             code |-> 500, body |-> None]
              ELSE reply' = [op |-> "run_draft", thread_id |-> state.thread_id,
                             code |-> 200,
                             body |-> RunDraftResponse(ResultError, state.thread_id)]
    /\ UNCHANGED <<state, trace, route, calls, checkpoints, boot, inflight>>
    /\ UNCHANGED <<settingsDb, kbVars, reviewVars>>

\* the status get_run_state derives from the stored values
RunStatus(values) ==
    IF values.violations # <<>> THEN "failed"
    ELSE IF values.draft_html # NoDraft /\ values.draft_html # <<>> THEN "completed"
    ELSE "running"

\* get_run_state: GET /threads/{thread_id}/state
GetRunState ==
    /\ \E t \in ThreadIds, reachable \in BOOLEAN :
          reply' = IF ~reachable
                   THEN [op |-> "get_run_state", thread_id |-> t, code |-> 500,
                         body |-> None]
                   ELSE IF t \notin DOMAIN checkpoints
                   THEN [op |-> "get_run_state", thread_id |-> t, code |-> 404,
                         body |-> None]
                   ELSE [op |-> "get_run_state", thread_id |-> t, code |-> 200,
                         body |-> [state |-> checkpoints[t],
                                   status |-> RunStatus(checkpoints[t]),
                                   thread_id |-> t]]
    /\ UNCHANGED <<pipelineVars, checkpoints, boot, inflight, settingsDb, kbVars, reviewVars>>

InitRuns ==
    /\ InitIdle
    /\ settingsDb = EmptyDb
    /\ InitKbEmpty
    /\ InitReviewEmpty
    /\ InitRunsEmpty

NextRuns ==
    \/ RunDraftStart
    \/ RunDraftUnreachable
    \/ ServedClassifier
    \/ ServedContextBuilder
    \/ ServedDrafter
    \/ ServedPolicyGuard
    \/ ServedRoute
    \/ RunDraftReturn
    \/ GetRunState

SpecRuns == InitRuns /\ [][NextRuns]_vars

(***************************************************************************)
(* Process start: get_checkpointer (agents/reploom_crew.py, core/config.py)*)
(***************************************************************************)
\* what settings.GRAPH_CHECKPOINTER yields: Settings declares no such field
\* and ignores extra variables, so the attribute is Missing; the tests
\* patch settings with an object that carries a string
CheckpointerSettings ==
    {Missing, JStr("postgres"), JStr("POSTGRES"), JStr("Postgres"), JStr("memory"),
     JStr("sqlite"), JStr("")}

\* str.lower on the setting
LowerSetting(v) ==
    CASE v = "POSTGRES" -> "postgres"
      [] v = "Postgres" -> "postgres"
      [] OTHER -> v

\* the environment of a start: the setting, whether the postgres driver
\* imports, whether from_conn_string and setup succeed
BootEnvs ==
    [setting : CheckpointerSettings, importOk : BOOLEAN, connectOk : BOOLEAN,
     setupOk : BOOLEAN]

MemoryWarning == [level |-> "warning", text |-> "in-memory: state will not persist"]

\* the warning every fallback path ends with
LogFallback(log) == Append(log, MemoryWarning)

\* get_checkpointer(): raised, the store returned, and the log lines written
GetCheckpointer(env) ==
    IF env.setting = Missing
    THEN [raised |-> TRUE, store |-> "none", log |-> <<>>]
    ELSE IF LowerSetting(env.setting.v) = "postgres"
    THEN IF ~env.importOk
         THEN [raised |-> FALSE, store |-> "memory",
               log |-> LogFallback(<< [level |-> "warning",
                                      text |-> "postgres checkpointer not available"] >>)]
         ELSE IF ~env.connectOk \/ ~env.setupOk
         THEN [raised |-> FALSE, store |-> "memory",
               log |-> LogFallback(<< [level |-> "info", text |-> "initializing postgres"],
                                     [level |-> "warning",
                                      text |-> "failed to initialize postgres"] >>)]
         ELSE [raised |-> FALSE, store |-> "postgres",
               log |-> << [level |-> "info", text |-> "initializing postgres"],
                          [level |-> "info", text |-> "postgres initialized"] >>]
    ELSE [raised |-> FALSE, store |-> "memory", log |-> LogFallback(<<>>)]

\* import of the module: checkpointer = get_checkpointer(), then compile
Boot ==
    /\ boot.phase = "starting"
    /\ LET r == GetCheckpointer(boot.env)
       IN boot' = [phase |-> IF r.raised THEN "crashed" ELSE "up", env |-> boot.env,
                   raised |-> r.raised, store |-> r.store, log |-> r.log]
    /\ UNCHANGED <<pipelineVars, checkpoints, reply, inflight, settingsDb, kbVars, reviewVars>>

\* the process is started again in any environment
Restart ==
    /\ boot.phase \in {"up", "crashed"}
    /\ \E env \in BootEnvs : boot' = [phase |-> "starting", env |-> env]
    /\ UNCHANGED <<pipelineVars, checkpoints, reply, inflight, settingsDb, kbVars, reviewVars>>

InitBoot ==
    /\ InitIdle
    /\ settingsDb = EmptyDb
    /\ InitKbEmpty
    /\ InitReviewEmpty
    /\ checkpoints = NoCheckpoints
    /\ reply = NoReply
    /\ inflight = NoInflight
    /\ \E env \in BootEnvs : boot = [phase |-> "starting", env |-> env]

NextBoot ==
    \/ Boot
    \/ Restart

SpecBoot == InitBoot /\ [][NextBoot]_vars

(***************************************************************************)
(* The chunker applied to texts and to sequences of chunks                 *)
(***************************************************************************)
MaxTextLen == 5
MaxChunkSize == 2
MaxChunks == 4

ChunkChars == {WordChar, " "}

\* the texts chunk_text is given
ChunkTexts == UNION {[1..n -> ChunkChars] : n \in 0..MaxTextLen}

\* the (chunk_size, chunk_overlap) pairs with 0 <= chunk_overlap < chunk_size
ChunkSizes ==
    {<<chunk_size, chunk_overlap>> \in (1..MaxChunkSize) \X (0..MaxChunkSize) :
        chunk_overlap < chunk_size}

DedupContents == {<<"p">>, <<"q">>, <<"r">>}

\* the sequences of Chunk objects deduplicate_chunks is given, built as in
\* the tests: the i-th chunk spans [i - 1, i)
ChunkLists ==
    UNION {{[i \in 1..n |-> Chunk(cs[i], ComputeContentHash(cs[i]), i - 1, i)] :
               cs \in [1..n -> DedupContents]} : n \in 0..MaxChunks}

ChunkOp(op, arg, result) ==
    [op |-> op, workspace_id |-> None, arg |-> arg, status |-> "ok",
     result |-> result, again |-> FALSE]

\* chunks = chunk_text(text, chunk_size, chunk_overlap)
ChunkTextCall ==
    /\ lastOp.op = "text"
    /\ lastOp' = ChunkOp("chunk_text", lastOp.arg,
                     ChunkText(lastOp.arg.text, lastOp.arg.chunk_size,
                               lastOp.arg.chunk_overlap, lastOp.arg.tiktokenOk))
    /\ UNCHANGED <<pipelineVars, runVars, settingsDb, reviewVars, points, collections>>

\* unique = deduplicate_chunks(chunks), on a given list or on the chunks of
\* the last call
DeduplicateChunksCall ==
    /\ lastOp.op \in {"chunks", "chunk_text", "deduplicate_chunks"}
    /\ LET chunks == IF lastOp.op = "chunks" THEN lastOp.arg ELSE lastOp.result
       IN lastOp' = ChunkOp("deduplicate_chunks", chunks, DeduplicateChunks(chunks))
    /\ UNCHANGED <<pipelineVars, runVars, settingsDb, reviewVars, points, collections>>

InitChunk ==
    /\ InitIdle
    /\ settingsDb = EmptyDb
    /\ points = {}
    /\ collections = {}
    /\ InitReviewEmpty
    /\ InitRunsEmpty
    /\ \/ \E text \in ChunkTexts, sz \in ChunkSizes, tiktokenOk \in BOOLEAN :
             lastOp = ChunkOp("text",
                          [text |-> text, chunk_size |-> sz[1],
                           chunk_overlap |-> sz[2], tiktokenOk |-> tiktokenOk], <<>>)
       \/ \E chunks \in ChunkLists : lastOp = ChunkOp("chunks", chunks, <<>>)

NextChunk ==
    \/ ChunkTextCall
    \/ DeduplicateChunksCall

SpecChunk == InitChunk /\ [][NextChunk]_vars

(***************************************************************************)
(* The drafter on states of every tone level                               *)
(***************************************************************************)
MaxToneLevel == 6

\* the tone levels a state can carry: in range, 0 and above 5
ToneLevels == 0..MaxToneLevel

\* the state without one of its keys
WithoutKey(st, key) == [k \in DOMAIN st \ {key} |-> st[k]]

\* the states that reach drafter_node: classified, with or without snippets,
\* with any tone level or with none
DrafterStates ==
    LET base(bl, snippets) ==
            [IdleState EXCEPT !.original_message_summary = "I need help",
                              !.thread_id = "t1",
                              !.intent = JStr("support"),
                              !.confidence = JNum(9),
                              !.blocklist = bl,
                              !.context_snippets = snippets]
        bases == {base(bl, sn) :
                     bl \in {<<>>, << <<"free", " ", "trial">> >>},
                     sn \in {<<>>, << <<"FAQ", ":", " ", "q">> >>}}
    IN {[b EXCEPT !.tone_level = t] : b \in bases, t \in ToneLevels}
         \cup {WithoutKey(b, "tone_level") : b \in bases}

InitDrafter ==
    /\ pc = "drafter"
    /\ state \in DrafterStates
    /\ trace = <<"classifier", "contextBuilder">>
    /\ route = "none"
    /\ calls = <<>>
    /\ settingsDb = EmptyDb
    /\ InitKbEmpty
    /\ InitReviewEmpty
    /\ InitRunsEmpty

NextDrafter ==
    \/ Drafter
    \/ PolicyGuard
    \/ Route

SpecDrafter == InitDrafter /\ [][NextDrafter]_vars

(***************************************************************************)
(* request_edit handlers that overlap (api/routes/reploom.py)              *)
(***************************************************************************)
MaxEdits == 2

\* request_edit up to `review = session.get(DraftReview, review_uuid)` and
\* the ownership test: the handler now holds its own copy of the row
BeginEdit ==
    /\ Len(inflight) < MaxEdits
    /\ \E sub \in SessionSubs, id \in 1..Len(reviews), d \in ReviewDrafts,
          n \in EditNotes :
          IF ~EditAuthorized(reviews[id], UserId(sub))
          THEN /\ resp' = Response("request_edit", UserId(sub), id, 403, None)
               /\ UNCHANGED inflight
          ELSE /\ inflight' = Append(inflight,
                      [op |-> "request_edit", review_id |-> id, caller |-> UserId(sub),
                       review |-> reviews[id], draft_html |-> d, edit_notes |-> n,
                       phase |-> "loaded"])
               /\ UNCHANGED resp
    /\ UNCHANGED <<reviews, now>>
    /\ UNCHANGED <<pipelineVars, checkpoints, reply, boot, settingsDb, kbVars>>

\* the rest of request_edit: the assignments on the handler's copy, then
\* session.commit(), whose UPDATE writes the assigned columns as computed
\* from the copy, and session.refresh(review)
CommitEdit ==
    /\ now < MaxClock
    /\ \E i \in 1..Len(inflight) :
          /\ inflight[i].phase = "loaded"
          /\ LET r == inflight[i]
                 edited == ApplyEdit(r.review, r.draft_html, r.edit_notes, now)
                 row == [reviews[r.review_id] EXCEPT
                            !.draft_html = edited.draft_html,
                            !.edit_notes = edited.edit_notes,
                            !.status = edited.status,
                            !.draft_version = edited.draft_version,
                            !.updated_at = edited.updated_at,
                            !.violations = edited.violations]
             IN /\ reviews' = [reviews EXCEPT ![r.review_id] = row]
                /\ resp' = Response("request_edit", r.caller, r.review_id, 200, row)
                /\ inflight' = [inflight EXCEPT ![i].phase = "done"]
    /\ now' = now + 1
    /\ UNCHANGED <<pipelineVars, checkpoints, reply, boot, settingsDb, kbVars>>

InitEdits ==
    /\ InitIdle
    /\ settingsDb = EmptyDb
    /\ InitKbEmpty
    /\ InitReviewEmpty
    /\ InitRunsEmpty

NextEdits ==
    \/ CreateReview
    \/ BeginEdit
    \/ CommitEdit

SpecEdits == InitEdits /\ [][NextEdits]_vars

(***************************************************************************)
(* Pipeline runs in progress at the same time (agents/reploom_crew.py)     *)
(***************************************************************************)
\* what search_kb does for context_builder_node: it raises, or returns hits
SearchRaised == [kind |-> "raised"]
SearchResults(results) == [kind |-> "ok", results |-> results]

\* one state dict that every run of the process reads
RunValuesShared(runs, i) == runs[1].state

\* the state LangGraph hands to a node: the values of the run's own invoke
RunValues(runs, i) == runs[i].state

\* one stage of a run over the state `st` it is handed: the node's return
\* value and the edge out of it; an exception ends the run
StageReturn(run, st) ==
    CASE run.pc = "classifier" ->
            IF run.classifier.kind = "error"
               \/ FormatRaises(ClassifierParse(run.classifier).confidence)
            THEN [run EXCEPT !.pc = "failed"]
            ELSE [run EXCEPT !.state = ClassifierReturn(st, run.classifier),
                             !.pc = NextStage("classifier")]
      [] run.pc = "contextBuilder" ->
            [run EXCEPT !.state = ContextBuilderReturn(st,
                            IF HasWorkspace(st.workspace_id) /\ run.search.kind = "ok"
                            THEN Snippets(run.search.results) ELSE <<>>),
                        !.pc = NextStage("contextBuilder")]
      [] run.pc = "drafter" ->
            IF run.drafter.kind = "error"
            THEN [run EXCEPT !.pc = "failed"]
            ELSE [run EXCEPT !.state = DrafterReturn(st, run.drafter.content),
                             !.pc = NextStage("drafter")]
      [] run.pc = "policyGuard" ->
            IF st.draft_html = NoDraft
            THEN [run EXCEPT !.pc = "failed"]
            ELSE [run EXCEPT !.state = PolicyGuardReturn(st),
                             !.pc = NextStage("policyGuard")]
      [] run.pc = "route" ->
            [run EXCEPT !.state = st, !.pc = RouteTarget(ShouldHalt(st))]

\* crew.invoke(initial_state, config) of one run with nothing else running
RECURSIVE SoloRun(_)
SoloRun(run) ==
    IF run.pc \in {"done", "failed"} THEN run
    ELSE SoloRun(StageReturn(run, run.state))

\* the runs in progress
PipelineRuns == {i \in 1..Len(inflight) : inflight[i].op = "run_draft"}

\* a run that is between two of its stages
MidRun(run) == run.pc \notin {EntryPoint, "done", "failed"}

\* run_draft with a thread id no run in progress uses: prepare_initial_state
\* and the responses the run will get from its external calls
StartConcurrentRun ==
    /\ \E m \in Messages, w \in ServedWorkspaces, t \in ThreadIds,
          r \in ServedClassifierOutcomes,
          d \in {LlmRaised} \cup {LlmContent(c) : c \in ServedDrafterContents} :
          /\ \A i \in PipelineRuns : inflight[i].thread_id # t
          /\ \E sr \in IF HasWorkspace(w)
                       THEN {SearchRaised}
                            \cup {SearchResults(res) : res \in SearchKb(points, w, TOP_K)}
                       ELSE {SearchRaised} :
                inflight' = Append(inflight,
                    [op |-> "run_draft", thread_id |-> t, pc |-> EntryPoint,
                     state |-> PrepareInitialState(m, w, t, settingsDb, "ok"),
                     initial |-> PrepareInitialState(m, w, t, settingsDb, "ok"),
                     classifier |-> r, search |-> sr, drafter |-> d,
                     interleaved |-> FALSE])
    /\ UNCHANGED <<pipelineVars, settingsDb, kbVars, reviewVars, checkpoints, reply, boot>>

\* the next stage of one of the runs in progress
StageStep ==
    /\ \E i \in PipelineRuns :
          /\ inflight[i].pc \notin {"done", "failed"}
          /\ inflight' = [inflight EXCEPT ![i] =
                 [StageReturn(inflight[i], RunValues(inflight, i)) EXCEPT
                     !.interleaved = @ \/ \E j \in PipelineRuns \ {i} :
                                              MidRun(inflight[j])]]
    /\ UNCHANGED <<pipelineVars, settingsDb, kbVars, reviewVars, checkpoints, reply, boot>>

InitConcurrent ==
    /\ InitIdle
    /\ settingsDb \in SettingsDbs
    /\ DOMAIN settingsDb = {"default", "ws-a"}
    /\ points = MixedIndex
    /\ collections = {QDRANT_COLLECTION_NAME}
    /\ lastOp = NoOp
    /\ InitReviewEmpty
    /\ InitRunsEmpty

NextConcurrent ==
    \/ StartConcurrentRun
    \/ StageStep

SpecConcurrent == InitConcurrent /\ [][NextConcurrent]_vars

(***************************************************************************)
(* Ingestions in progress at the same time (kb/client.py, kb/retrieval.py) *)
(***************************************************************************)
MaxIngestions == 2

\* the create_collection request as the index receives it: `existed` tells
\* whether the collection was there at the moment of the request
CreateRequest(existing) ==
    [target |-> "index", op |-> "create_collection",
     collection |-> QDRANT_COLLECTION_NAME,
     existed |-> QDRANT_COLLECTION_NAME \in existing]

\* the upsert_document calls in progress
Ingestions == {i \in 1..Len(inflight) : inflight[i].op = "upsert_document"}

\* upsert_document is called
BeginUpsert ==
    /\ Len(inflight) < MaxIngestions
    /\ \E d \in Docs, w \in KbWorkspaces :
          inflight' = Append(inflight,
              [op |-> "upsert_document", file_content |-> d, workspace_id |-> w,
               exists |-> FALSE, phase |-> "called"])
    /\ UNCHANGED <<pipelineVars, settingsDb, kbVars, reviewVars, checkpoints, reply, boot>>

\* ensure_collection_exists, first half: client.get_collections() and
\* exists = any(c.name == collection_name ...); an existing collection is
\* only logged
GetCollections ==
    /\ \E i \in Ingestions :
          /\ inflight[i].phase = "called"
          /\ inflight' = [inflight EXCEPT
                 ![i].exists = QDRANT_COLLECTION_NAME \in collections,
                 ![i].phase = IF QDRANT_COLLECTION_NAME \in collections
                              THEN "ensured" ELSE "checked"]
    /\ calls' = Append(calls, [target |-> "index", op |-> "get_collections"])
    /\ UNCHANGED <<pc, state, trace, route, settingsDb, kbVars, reviewVars,
                   checkpoints, reply, boot>>

\* ensure_collection_exists, second half: if not exists: create_collection;
\* the index rejects the request for a name it already holds and the
\* exception leaves upsert_document
CreateCollection ==
    /\ \E i \in Ingestions :
          /\ inflight[i].phase = "checked"
          /\ ~inflight[i].exists
          /\ inflight' = [inflight EXCEPT ![i].phase =
                 IF QDRANT_COLLECTION_NAME \in collections
                 THEN "failed" ELSE "ensured"]
    /\ calls' = Append(calls, CreateRequest(collections))
    /\ collections' = collections \cup {QDRANT_COLLECTION_NAME}
    /\ UNCHANGED <<pc, state, trace, route, settingsDb, points, lastOp, reviewVars,
                   checkpoints, reply, boot>>

\* the rest of upsert_document: chunk, deduplicate, embed, upsert
StorePoints ==
    /\ \E i \in Ingestions :
          /\ inflight[i].phase = "ensured"
          /\ points' = QdrantUpsert(points,
                 DocumentPoints(inflight[i].file_content, inflight[i].workspace_id,
                                "upload", None, TRUE))
          /\ inflight' = [inflight EXCEPT ![i].phase = "done"]
    /\ UNCHANGED <<pipelineVars, settingsDb, collections, lastOp, reviewVars,
                   checkpoints, reply, boot>>

InitIngest ==
    /\ InitIdle
    /\ settingsDb = EmptyDb
    /\ InitKbEmpty
    /\ InitReviewEmpty
    /\ InitRunsEmpty

NextIngest ==
    \/ BeginUpsert
    \/ GetCollections
    \/ CreateCollection
    \/ StorePoints

SpecIngest == InitIngest /\ [][NextIngest]_vars

(***************************************************************************)
(* The chunking loop, one iteration at a time (kb/chunker.py)              *)
(***************************************************************************)
\* how far below zero the model follows start_idx
MaxRewind == 3

\* a slice bound as Python reads it: a negative bound counts from the end
PyBound(i, n) == IF i < 0 THEN (IF i + n < 0 THEN 0 ELSE i + n) ELSE Min(i, n)

\* seq[a:b]
PySlice(seq, a, b) ==
    IF PyBound(a, Len(seq)) < PyBound(b, Len(seq))
    THEN SubSeq(seq, PyBound(a, Len(seq)) + 1, PyBound(b, Len(seq)))
    ELSE <<>>

\* the (chunk_size, chunk_overlap) pairs with chunk_size >= 1, chunk_overlap >= 0
LoopSizes == (1..MaxChunkSize) \X (0..MaxChunkSize)

\* the loop's variables; `emitted` counts the chunks appended, up to MaxChunks
LoopOp(arg, status) ==
    [op |-> "chunk_loop", workspace_id |-> None, arg |-> arg, status |-> status,
     result |-> <<>>, again |-> FALSE]

\* chunk_text up to the loop: tokens = encoding.encode(text), or the
\* characters with both sizes multiplied; chunks = []; start_idx = 0
EnterLoop ==
    /\ lastOp.op = "text"
    /\ lastOp' = LoopOp(
           [tokens |-> IF lastOp.arg.tiktokenOk THEN Encode(lastOp.arg.text)
                       ELSE CharUnits(lastOp.arg.text),
            chunk_size |-> IF lastOp.arg.tiktokenOk THEN lastOp.arg.chunk_size
                           ELSE lastOp.arg.chunk_size * CharsPerToken,
            chunk_overlap |-> IF lastOp.arg.tiktokenOk THEN lastOp.arg.chunk_overlap
                              ELSE lastOp.arg.chunk_overlap * CharsPerToken,
            start_idx |-> 0, end_idx |-> 0, emitted |-> 0], "running")
    /\ UNCHANGED <<pipelineVars, runVars, settingsDb, reviewVars, points, collections>>

\* one evaluation of `while start_idx < len(tokens)` and of the loop body
LoopBody(l) ==
    IF ~(l.start_idx < Len(l.tokens)) THEN LoopOp(l, "returned")
    ELSE LET end_idx == Min(l.start_idx + l.chunk_size, Len(l.tokens))
             chunk_text == Decode(PySlice(l.tokens, l.start_idx, end_idx))
             after == [l EXCEPT
                         !.end_idx = end_idx,
                         !.emitted = IF Strip(chunk_text) # <<>>
                                     THEN Min(@ + 1, MaxChunks) ELSE @,
                         !.start_idx = @ + l.chunk_size - l.chunk_overlap]
         IN IF end_idx = Len(l.tokens) THEN LoopOp(after, "returned")
            ELSE LoopOp(after, "running")

IterateLoop ==
    /\ lastOp.op = "chunk_loop"
    /\ lastOp.status = "running"
    /\ lastOp.arg.start_idx >= -MaxRewind
    /\ lastOp' = LoopBody(lastOp.arg)
    /\ UNCHANGED <<pipelineVars, runVars, settingsDb, reviewVars, points, collections>>

InitLoop ==
    /\ InitIdle
    /\ settingsDb = EmptyDb
    /\ points = {}
    /\ collections = {}
    /\ InitReviewEmpty
    /\ InitRunsEmpty
    /\ \E text \in ChunkTexts, sz \in LoopSizes, tiktokenOk \in BOOLEAN :
          lastOp = ChunkOp("text",
                       [text |-> text, chunk_size |-> sz[1],
                        chunk_overlap |-> sz[2], tiktokenOk |-> tiktokenOk], <<>>)

NextLoop ==
    \/ EnterLoop
    \/ IterateLoop

\* a call of chunk_text keeps executing
SpecLoop == InitLoop /\ [][NextLoop]_vars /\ WF_vars(NextLoop)

Init == InitPipeline
Next == NextPipeline
Spec == SpecPipeline

(***************************************************************************)
(* Properties                                                              *)
(***************************************************************************)
StageOrder == <<"classifier", "contextBuilder", "drafter", "policyGuard">>

StagePosition(stage) == CHOOSE i \in 1..Len(StageOrder) : StageOrder[i] = stage

IsStage(p) == \E i \in 1..Len(StageOrder) : StageOrder[i] = p

\* C1: in every run the stages execute once each in the order classifier,
\* contextBuilder, drafter, policyGuard, then the routing decision: a stage
\* is entered exactly when the stages before it, and no other, have
\* executed; a run that reaches the routing decision or its end has
\* executed all four, each once.
C1_StagesInOrder ==
    /\ IsStage(pc) => trace = SubSeq(StageOrder, 1, StagePosition(pc) - 1)
    /\ pc = "failed" => \E n \in 1..Len(StageOrder) : trace = SubSeq(StageOrder, 1, n)
    /\ pc = "route" => trace = StageOrder /\ route = "none"
    /\ pc = "done" => trace = StageOrder /\ route \in {"halt", "continue"}

C1_Witness == pc = "done" /\ trace = StageOrder /\ route = "halt"

\* the violations the claim C2 describes, from the blocklist and the draft
ClaimedViolations(draft, blocklist) ==
    LET Matches(p) == /\ Lower(Strip(p)) # <<>>
                      /\ IsSubstring(Lower(Strip(p)), Lower(draft))
        matching == SelectSeq(blocklist, Matches)
    IN [i \in 1..Len(matching) |->
           <<"Blocklisted phrase detected: '">> \o Strip(matching[i]) \o <<"'">>]

\* C2: after policy_guard_node, violations holds, in blocklist order, one
\* entry "Blocklisted phrase detected: '<phrase>'" for each blocklist entry
\* whose trimmed lower-cased form is non-empty and a substring of the
\* lower-cased draft, and nothing else; it is non-empty iff an entry matches.
C2_GuardListsEveryMatch ==
    pc \in {"route", "done"} =>
        /\ state.violations = ClaimedViolations(state.draft_html, state.blocklist)
        /\ (state.violations # <<>>) <=>
              \E i \in 1..Len(state.blocklist) :
                 /\ Lower(Strip(state.blocklist[i])) # <<>>
                 /\ IsSubstring(Lower(Strip(state.blocklist[i])),
                                Lower(state.draft_html))

\* two entries of the blocklist hit a draft that has an upper-case letter,
\* and both are recorded
C2_Witness ==
    /\ pc = "route"
    /\ Len(state.blocklist) = 2
    /\ Len(state.violations) = 2
    /\ state.violations[1] # state.violations[2]
    /\ state.draft_html # Lower(state.draft_html)

\* C3: the routing decision is "halt" iff violations is non-empty and
\* "continue" iff it is empty, and on either route the run is over: the four
\* stages have executed and nothing executes after the decision.
C3_RoutingTerminal ==
    /\ route = "halt" => state.violations # <<>>
    /\ route = "continue" => state.violations = <<>>
    /\ route # "none" => pc = "done" /\ trace = StageOrder
    /\ pc = "done" => route # "none"

C3_Witness == pc = "done" /\ route = "continue" /\ state.draft_html # <<>>

\* the exact-match filter on workspace_id the claim C4 requires
WorkspaceFilter(workspace_id) ==
    [must |-> << [key |-> "workspace_id", value |-> workspace_id] >>]

\* C4: whatever the collection holds, a search_kb for workspace A returns
\* only points whose payload workspace_id is A, and every search request
\* sent to the index carries the exact-match filter on workspace_id = A.
C4_SearchStaysInWorkspace ==
    /\ (lastOp.op = "search" /\ lastOp.status = "ok") =>
          \A i \in 1..Len(lastOp.result) :
             lastOp.result[i].workspace_id = lastOp.workspace_id
    /\ lastOp.op = "search" =>
          \A i \in 1..Len(calls) :
             (calls[i].target = "index" /\ calls[i].op = "search") =>
                calls[i].query_filter = WorkspaceFilter(lastOp.workspace_id)

\* a search that returned a hit while the collection also holds a point of
\* another workspace
C4_Witness ==
    /\ lastOp.op = "search"
    /\ lastOp.status = "ok"
    /\ Len(lastOp.result) >= 1
    /\ \E p \in points : p.workspace_id # lastOp.workspace_id

\* the set of points search_kb can return for a workspace when k is not
\* the limit
SearchableBy(idx, workspace_id) ==
    {r[i] : r \in SearchKb(idx, workspace_id, Cardinality(idx) + 1),
            i \in 1..Cardinality(FilterHits(idx, SearchFilter(workspace_id)))}

\* C5: an upsert_document made for workspace B never changes the set of
\* points search_kb returns for another workspace A.
C5_UpsertLeavesOtherWorkspaces ==
    [][\A A \in KbWorkspaces :
          (lastOp'.op = "upsert" /\ lastOp'.workspace_id # A) =>
              SearchableBy(points', A) = SearchableBy(points, A)]_vars

OnePointPerHash ==
    \A p, q \in points : p.content_hash = q.content_hash => p = q

\* C6: the collection never holds two points of one content_hash, and an
\* upsert_document that repeats the previous successful call (same content,
\* same workspace) leaves as many points stored as the first call did, under
\* the same ids.
C6_UpsertIdempotent ==
    /\ []OnePointPerHash
    /\ [][(lastOp'.op = "upsert" /\ lastOp'.again /\ lastOp'.status = "ok") =>
             /\ Cardinality(points') = Cardinality(points)
             /\ {p.id : p \in points'} = {p.id : p \in points}]_vars

\* the same two-chunk document was ingested twice in a row
C6_Witness ==
    /\ lastOp.op = "upsert"
    /\ lastOp.again
    /\ lastOp.status = "ok"
    /\ lastOp.result.chunks_uploaded = 2
    /\ Cardinality(points) = 2

\* C7: every change of a record's status follows the transition table:
\* to approved only from pending or editing, to rejected only from pending
\* or editing, to editing from any state, and never back to pending.
C7_TransitionTable ==
    [][\A id \in 1..Len(reviews) :
          reviews'[id].status # reviews[id].status =>
             \/ /\ reviews'[id].status = "approved"
                /\ reviews[id].status \in {"pending", "editing"}
             \/ /\ reviews'[id].status = "rejected"
                /\ reviews[id].status \in {"pending", "editing"}
             \/ reviews'[id].status = "editing"]_vars

\* the step is a successful call of the endpoint op
Succeeded(op) == resp'.op = op /\ resp'.code = 200 /\ now' # now

\* C8: a record is created pending with draft_version 1; draft_version never
\* decreases; a successful request_edit raises the version of its record by
\* exactly 1; approve and reject leave draft_version and draft_html as they
\* were.
C8_VersionCounts ==
    [][/\ Len(reviews') >= Len(reviews)
       /\ \A id \in (Len(reviews) + 1)..Len(reviews') :
             reviews'[id].status = "pending" /\ reviews'[id].draft_version = 1
       /\ \A id \in 1..Len(reviews) :
             /\ reviews'[id].draft_version >= reviews[id].draft_version
             /\ (Succeeded("request_edit") /\ resp'.target = id) =>
                    reviews'[id].draft_version = reviews[id].draft_version + 1
             /\ (Succeeded("approve") \/ Succeeded("reject")) =>
                    /\ reviews'[id].draft_version = reviews[id].draft_version
                    /\ reviews'[id].draft_html = reviews[id].draft_html]_vars

\* created, edited once, then approved
C8_Witness ==
    \E id \in 1..Len(reviews) :
       /\ reviews[id].status = "approved"
       /\ reviews[id].draft_version = 2
       /\ reviews[id].reviewed_at # NoTime

\* C9: an approve, reject or request_edit by an identity that did not create
\* the record is answered 403 and changes no field of any record; a get by
\* such an identity is answered 403 without the record; a list returns only
\* the caller's records; a record changes only by a call of its creator.
C9_OnlyTheCreator ==
    [][/\ (/\ resp' # resp
           /\ resp'.op \in {"get", "approve", "reject", "request_edit"}
           /\ resp'.target \in 1..Len(reviews)
           /\ reviews[resp'.target].user_id # resp'.caller) =>
              /\ resp'.code = 403
              /\ resp'.body = None
              /\ reviews' = reviews
       /\ resp'.op = "list" => \A r \in resp'.body : r.user_id = resp'.caller
       /\ \A id \in 1..Len(reviews) :
             reviews'[id] # reviews[id] =>
                /\ resp'.caller = reviews[id].user_id
                /\ resp'.target = id
                /\ resp'.code = 200]_vars

\* a request_edit by another identity was refused
C9_Witness ==
    /\ resp.op = "request_edit"
    /\ resp.code = 403
    /\ resp.target \in 1..Len(reviews)
    /\ reviews[resp.target].user_id # resp.caller
    /\ reviews[resp.target].draft_version = 2

\* C10: after classifier_node the intent is one of support, cs, exec, other
\* and the confidence is a number in [0,1] (0..10 tenths).
C10_IntentInCategories ==
    pc \in {"contextBuilder", "drafter", "policyGuard", "route", "done"} =>
        /\ state.intent \in {JStr(c) : c \in IntentCategories}
        /\ state.confidence.t = "num"
        /\ state.confidence.v \in 0..10

\* the replies of the generation call the claim C11 calls malformed: no JSON,
\* no JSON object, an object that lacks a key, a confidence that is no number
MalformedReply(r) ==
    \/ r.kind \in {"not_json", "json_nonobject"}
    \/ /\ r.kind = "json_object"
       /\ \/ r.intent = Missing
          \/ r.confidence = Missing
          \/ r.confidence.t # "num"

\* C11: whenever the generation call of the classifier returns a malformed
\* reply, classifier_node raises nothing, the run is at the context builder,
\* and the state holds intent other with confidence 0.5 (5 tenths).
C11_MalformedReplyDegrades ==
    (trace = <<"classifier">> /\ MalformedReply(calls[Len(calls)].response)) =>
        /\ pc = "contextBuilder"
        /\ state.intent = JStr("other")
        /\ state.confidence = JNum(5)

\* C12: the context builder never aborts a run: without a workspace_id it
\* makes no embedding or search call and returns no snippet; with one, a
\* retrieval that raises leaves no snippet; either way the drafter is next.
C12_ContextBuilderNeverAborts ==
    [][pc = "contextBuilder" =>
          /\ pc' = "drafter"
          /\ state.workspace_id = None =>
                 /\ calls' = calls
                 /\ state'.context_snippets = <<>>
          /\ (/\ Len(calls') > Len(calls)
              /\ calls'[Len(calls')].response = "raised") =>
                 state'.context_snippets = <<>>]_vars

\* the index raised during retrieval for a workspace that holds documents,
\* and the drafter ran afterwards
C12_Witness ==
    /\ pc = "policyGuard"
    /\ state.workspace_id = "ws-a"
    /\ points # {}
    /\ calls[Len(calls) - 1].target = "index"
    /\ calls[Len(calls) - 1].response = "raised"
    /\ state.context_snippets = <<>>
    /\ state.draft_html # NoDraft

\* the last generation call of the run raised
HardFailed ==
    /\ calls # <<>>
    /\ calls[Len(calls)].target = "llm"
    /\ calls[Len(calls)].response.kind = "error"

\* C13: when the generation call of the classifier or of the drafter raises,
\* no later stage executes, the caller of run_draft gets an error, and
\* neither the response nor the state stored for the thread carries a draft.
C13_HardFailureSurfaces ==
    HardFailed =>
        /\ pc \in {"failed", "idle"}
        /\ trace[Len(trace)] = calls[Len(calls)].stage
        /\ checkpoints[state.thread_id].draft_html = NoDraft
        /\ (pc = "idle" /\ reply.op = "run_draft") =>
               /\ reply.code # 200
               /\ reply.body = None

\* C14: the response of a run that passed its terminal stage carries the
\* draft_html, intent, confidence and violations stored under its thread;
\* the stored state of a thread changes only by a step of a run under that
\* thread; a read of a thread returns exactly the state stored under it.
C14_CheckpointPerThread ==
    [][/\ (pc = "done" /\ pc' = "idle") =>
              /\ reply'.op = "run_draft"
              /\ reply'.code = 200
              /\ reply'.thread_id = state.thread_id
              /\ state.thread_id \in DOMAIN checkpoints'
              /\ LET stored == checkpoints'[state.thread_id]
                 IN /\ reply'.body.draft_html = stored.draft_html
                    /\ reply'.body.intent = stored.intent
                    /\ reply'.body.confidence = stored.confidence
                    /\ reply'.body.violations = stored.violations
       /\ \A t \in DOMAIN checkpoints :
              /\ t \in DOMAIN checkpoints'
              /\ checkpoints'[t] # checkpoints[t] =>
                     /\ state'.thread_id = t
                     /\ pc' # "idle"
       /\ (reply' # reply /\ reply'.op = "get_run_state" /\ reply'.code = 200) =>
              /\ reply'.thread_id \in DOMAIN checkpoints
              /\ reply'.body.state = checkpoints[reply'.thread_id]
              /\ checkpoints' = checkpoints]_vars

\* the blocked draft of the run under t1 is read back after a run under t2
\* has completed with another draft
C14_Witness ==
    /\ reply.op = "get_run_state"
    /\ reply.code = 200
    /\ reply.thread_id = "t1"
    /\ reply.body.state.violations # <<>>
    /\ state.thread_id = "t2"
    /\ pc = "idle"
    /\ trace = StageOrder
    /\ state.violations = <<>>
    /\ checkpoints["t2"] = state

\* C15: get_checkpointer never raises and returns a store: the durable one
\* when postgres is configured, the driver imports and the store
\* initialises, and otherwise the in-memory one, the warning that state will
\* not persist being the last line logged before it is returned.
C15_CheckpointerFallback ==
    boot.phase \in {"up", "crashed"} =>
        /\ ~boot.raised
        /\ boot.store \in {"postgres", "memory"}
        /\ boot.store = "postgres" <=>
               /\ boot.env.setting # Missing
               /\ LowerSetting(boot.env.setting.v) = "postgres"
               /\ boot.env.importOk
               /\ boot.env.connectOk
               /\ boot.env.setupOk
        /\ boot.store = "memory" =>
               /\ boot.log # <<>>
               /\ boot.log[Len(boot.log)] = MemoryWarning

\* the row of the stub table by position
StubEntry(i) ==
    [tone_level |-> DEFAULT_WORKSPACE_SETTINGS[i].tone_level,
     style_json |-> DEFAULT_WORKSPACE_SETTINGS[i].style_json,
     blocklist |-> DEFAULT_WORKSPACE_SETTINGS[i].blocklist_json]

StoredEntry(wid) ==
    [tone_level |-> settingsDb[wid].tone_level,
     style_json |-> settingsDb[wid].style_json,
     blocklist |-> settingsDb[wid].blocklist_json]

\* the settings a run was prepared with
LoadedEntry ==
    [tone_level |-> state.tone_level, style_json |-> state.style_json,
     blocklist |-> state.blocklist]

\* the workspace looked up for the run, and whether each lookup was answered
LookedUp == IF state.workspace_id = None THEN "default" ELSE state.workspace_id
FirstAnswered == calls[1].response # "raised"
SecondAnswered == Len(calls) >= 2 /\ calls[2].response # "raised"
JustPrepared == pc = "classifier" /\ trace = <<>>

\* the settings the chain resolves to, `last` being its last resort
Resolved(last) ==
    IF FirstAnswered /\ LookedUp \in DOMAIN settingsDb
    THEN StoredEntry(LookedUp)
    ELSE IF FirstAnswered /\ SecondAnswered /\ "default" \in DOMAIN settingsDb
    THEN StoredEntry("default")
    ELSE last

\* C16 as stated: get_workspace_settings never raises, never writes to the
\* store, and resolves to the stored record of the workspace, else the stored
\* record of "default", else the first entry of the stub table.
C16_FallbackChain ==
    /\ [](JustPrepared =>
            /\ LoadedEntry = Resolved(StubEntry(1))
            /\ \A i \in 1..Len(calls) : calls[i].target = "db" /\ calls[i].op = "select")
    /\ [][pc = "idle" => pc' = "classifier"]_vars
    /\ [][settingsDb' = settingsDb]_vars

\* the stub table's entry for the workspace when it has one, else its first
StubEntryFor(wid) ==
    IF \E i \in 1..Len(DEFAULT_WORKSPACE_SETTINGS) :
          DEFAULT_WORKSPACE_SETTINGS[i].workspace_id = wid
    THEN StubEntry(CHOOSE i \in 1..Len(DEFAULT_WORKSPACE_SETTINGS) :
                      /\ DEFAULT_WORKSPACE_SETTINGS[i].workspace_id = wid
                      /\ \A j \in 1..(i - 1) :
                            DEFAULT_WORKSPACE_SETTINGS[j].workspace_id # wid)
    ELSE StubEntry(1)

\* C16 amended: get_workspace_settings never raises, sends only selects and
\* leaves the store as it was, and resolves to the stored record of the
\* workspace, else the stored record of "default", else the stub table's
\* entry for that workspace, else the first entry of the stub table.
C16_FallbackChainAmended ==
    /\ [](JustPrepared =>
            /\ LoadedEntry = Resolved(StubEntryFor(LookedUp))
            /\ \A i \in 1..Len(calls) : calls[i].target = "db" /\ calls[i].op = "select")
    /\ [][pc = "idle" => pc' = "classifier"]_vars
    /\ [][settingsDb' = settingsDb]_vars

\* a run for ws-test while the store holds only another workspace's row: the
\* stub entry of ws-test is loaded, not the first entry
C16_Witness ==
    /\ JustPrepared
    /\ state.workspace_id = "ws-test"
    /\ Len(calls) = 2
    /\ calls[2].response = "none"
    /\ DOMAIN settingsDb = {"ws-a"}
    /\ LoadedEntry = StubEntry(2)

(***************************************************************************)
(* Chunker properties                                                      *)
(***************************************************************************)
\* a call of chunk_text has returned
Chunked == lastOp.op = "chunk_text"

\* the token count of the text
TokenCount(text) == Len(Encode(text))

\* the units the call windows over: tokens, or characters in the fallback
WindowUnits(arg) ==
    IF arg.tiktokenOk THEN Encode(arg.text) ELSE CharUnits(arg.text)

\* position p (from 0) lies in the window [start_idx, end_idx) of some chunk
Covered(chunks, p) ==
    \E i \in 1..Len(chunks) : chunks[i].start_idx <= p /\ p < chunks[i].end_idx

\* the windows cover the positions 0..n-1, from 0 to n
CoversAll(chunks, n) ==
    /\ chunks # <<>>
    /\ chunks[1].start_idx = 0
    /\ chunks[Len(chunks)].end_idx = n
    /\ \A p \in 0..(n - 1) : Covered(chunks, p)

\* C17: for every non-empty text and 0 <= chunk_overlap < chunk_size,
\* chunk_text returns a non-empty sequence of chunks whose windows cover
\* every token position with no gap, the first starting at 0 and the last
\* ending at the token count
C17_WindowsCoverText ==
    (Chunked /\ lastOp.arg.text # <<>>)
        => CoversAll(lastOp.result, TokenCount(lastOp.arg.text))

\* C17 (amended): the whitespace-only windows are left out.  The result is
\* empty exactly when the text is whitespace-only, every position that holds
\* a non-whitespace unit is covered, returned windows are in increasing
\* order, and a text with no whitespace unit is covered whole, from 0 to the
\* number of units (tokens, or characters in the fallback)
C17_WindowsCoverTextAmended ==
    (Chunked /\ lastOp.arg.text # <<>>)
        => LET units == WindowUnits(lastOp.arg)
               chunks == lastOp.result
           IN /\ (chunks = <<>>) <=> (Strip(lastOp.arg.text) = <<>>)
              /\ \A p \in 0..(Len(units) - 1) :
                    Strip(units[p + 1]) # <<>> => Covered(chunks, p)
              /\ \A i \in 1..(Len(chunks) - 1) :
                    chunks[i].start_idx < chunks[i + 1].start_idx
              /\ (\A p \in 1..Len(units) : Strip(units[p]) # <<>>)
                    => CoversAll(chunks, Len(units))

\* a text with a whitespace-only window between two others has been chunked
C17_Witness ==
    /\ Chunked
    /\ lastOp.arg.tiktokenOk
    /\ Len(lastOp.result) = 2
    /\ ~Covered(lastOp.result, 1)
    /\ Covered(lastOp.result, 0) /\ Covered(lastOp.result, 2)

\* the size of the window of the call, in the units it windows over
WindowSize(arg) ==
    IF arg.tiktokenOk THEN arg.chunk_size ELSE arg.chunk_size * CharsPerToken

Deduplicated == lastOp.op = "deduplicate_chunks"

\* chunks[i] is the first chunk of its content_hash
FirstOccurrence(chunks, i) ==
    \A j \in 1..(i - 1) : chunks[j].content_hash # chunks[i].content_hash

\* the k-th element of unique is the k-th first occurrence of chunks
FirstOccurrencesInOrder(chunks, unique) ==
    LET firsts == {i \in 1..Len(chunks) : FirstOccurrence(chunks, i)}
    IN /\ Len(unique) = Cardinality(firsts)
       /\ \A i \in firsts :
             unique[Cardinality({j \in firsts : j <= i})] = chunks[i]

\* C19: deduplicate_chunks returns the first occurrence of each distinct
\* content_hash in original order: the result is no longer than the input,
\* holds no two elements of equal hash, holds every hash of the input, and
\* deduplicating it again returns it unchanged
C19_DedupFirstOccurrences ==
    Deduplicated
        => LET chunks == lastOp.arg
               unique == lastOp.result
           IN /\ FirstOccurrencesInOrder(chunks, unique)
              /\ Len(unique) <= Len(chunks)
              /\ \A i, j \in 1..Len(unique) :
                    unique[i].content_hash = unique[j].content_hash => i = j
              /\ \A i \in 1..Len(chunks) : \E k \in 1..Len(unique) :
                    unique[k].content_hash = chunks[i].content_hash
              /\ DeduplicateChunks(unique) = unique

\* a list whose repeated content is not adjacent has been deduplicated
C19_Witness ==
    /\ Deduplicated
    /\ Len(lastOp.arg) = 4
    /\ Len(lastOp.result) = 3
    /\ lastOp.arg[1].content_hash = lastOp.arg[3].content_hash
    /\ lastOp.arg[2].content_hash # lastOp.arg[1].content_hash

(***************************************************************************)
(* Ingestion properties                                                    *)
(***************************************************************************)
\* the document of the last upsert_document call gives no chunk
NoChunkUpsert ==
    /\ lastOp.op = "upsert"
    /\ \A tiktokenOk \in BOOLEAN :
          DeduplicateChunks(ChunkText(lastOp.arg, CHUNK_SIZE \div TokenUnit,
                                      CHUNK_OVERLAP \div TokenUnit, tiktokenOk)) = <<>>

\* C20: when chunking and deduplication produce no chunk, upsert_document
\* returns zero counts and makes no call to the Vector Index (no collection
\* listing, no collection creation, no upsert) and no embedding call
C20_EmptyUpsertContactsNothing ==
    NoChunkUpsert
        => /\ lastOp.status = "ok"
           /\ lastOp.result = [chunks_total |-> 0, chunks_uploaded |-> 0,
                               duplicates_skipped |-> 0]
           /\ \A i \in 1..Len(calls) : calls[i].target \notin {"index", "embedding"}

(***************************************************************************)
(* Drafter properties                                                      *)
(***************************************************************************)
\* the tone instruction expected for a state
ExpectedTone(st) ==
    IF "tone_level" \notin DOMAIN st THEN "Neutral"
    ELSE IF st.tone_level = 1 THEN "Very Formal"
    ELSE IF st.tone_level = 2 THEN "Formal"
    ELSE IF st.tone_level = 4 THEN "Casual"
    ELSE IF st.tone_level = 5 THEN "Very Casual"
    ELSE "Neutral"

\* C21: tone levels 1..5 select five pairwise distinct named instructions,
\* every level outside 1..5 and a state without tone_level select Neutral,
\* and each execution of the drafter makes exactly one generation call
C21_ToneMapping ==
    /\ [](\A t, u \in 1..5 : ToneName(t) = ToneName(u) => t = u)
    /\ [][(pc = "drafter" /\ pc' # "drafter")
             => /\ Len(calls') = Len(calls) + 1
                /\ SubSeq(calls', 1, Len(calls)) = calls
                /\ calls'[Len(calls')].stage = "drafter"
                /\ calls'[Len(calls')].detail = ExpectedTone(state)]_vars

\* the drafter has run on a state whose tone level is out of range or absent
C21_Witness ==
    /\ pc = "policyGuard"
    /\ Len(calls) = 1
    /\ calls[1].detail = "Neutral"
    /\ \/ "tone_level" \notin DOMAIN state
       \/ state.tone_level \in {0, 6}

(***************************************************************************)
(* Run-state properties                                                    *)
(***************************************************************************)
\* get_run_state has answered with a state
RunStateRead == reply.op = "get_run_state" /\ reply.code = 200

\* C22: the derived status is failed exactly when violations is non-empty,
\* completed exactly when violations is empty and a draft exists, running
\* exactly when violations is empty and no draft exists
C22_StatusDerivation ==
    RunStateRead
        => LET values == reply.body.state
               status == reply.body.status
           IN /\ status \in {"failed", "completed", "running"}
              /\ status = "failed" <=> values.violations # <<>>
              /\ status = "completed"
                    <=> (values.violations = <<>> /\ values.draft_html # NoDraft)
              /\ status = "running"
                    <=> (values.violations = <<>> /\ values.draft_html = NoDraft)

(***************************************************************************)
(* Review remediation properties                                           *)
(***************************************************************************)
\* C23: a record whose violations list is non-empty does not become
\* approved; only a request_edit, which empties the list, opens the way
C23_BlockedUntilRemediated ==
    [][\A id \in 1..Len(reviews) :
          (reviews'[id].status = "approved" /\ reviews[id].status # "approved")
              => reviews[id].violations = <<>>]_vars

\* the draft holds a phrase of the default blocklist
HoldsBlocklistedPhrase(draft_html) ==
    PolicyGuardViolations(draft_html, DEFAULT_WORKSPACE_SETTINGS[1].blocklist_json) # <<>>

UpsertCalls(cs) ==
    {i \in 1..Len(cs) : cs[i].target = "index" /\ cs[i].op = "upsert"}

\* the step is a call of upsert_document
UpsertStep == lastOp'.op = "upsert"

\* C25: one upsert_document call writes all-or-nothing: when it succeeds,
\* one upsert request carries every point of the deduplicated document and
\* all of them are stored; when the call ends before the upsert request
\* (the index is down, chunking gave nothing, an embedding batch raised),
\* the stored points are those of before the call
C25_UpsertAllOrNothing ==
    [][UpsertStep =>
          /\ Cardinality(UpsertCalls(calls')) <= 1
          /\ UpsertCalls(calls') = {} => points' = points
          /\ (lastOp'.status = "ok" /\ UpsertCalls(calls') # {}) =>
                \E tiktokenOk \in BOOLEAN, title \in Titles :
                   LET pts == DocumentPoints(lastOp'.arg, lastOp'.workspace_id,
                                             "upload", title, tiktokenOk)
                       written == {pts[i] : i \in 1..Len(pts)}
                   IN /\ \A i \in UpsertCalls(calls') : calls'[i].points = Len(pts)
                      /\ written \subseteq points'
                      /\ \A p \in points' \ written : p \in points
                      /\ \A p \in points :
                            (\A q \in written : q.id # p.id) => p \in points']_vars

\* the second embedding batch of a two-chunk document raised while the
\* collection held points
C25_Witness ==
    /\ lastOp.op = "upsert"
    /\ lastOp.status = "error"
    /\ UpsertCalls(calls) = {}
    /\ Cardinality({i \in 1..Len(calls) : calls[i].target = "embedding"}) = 2
    /\ points # {}

(***************************************************************************)
(* Concurrency properties                                                  *)
(***************************************************************************)
\* the request_edit calls on the record that have succeeded
SuccessfulEdits(id) ==
    {i \in 1..Len(inflight) :
        /\ inflight[i].op = "request_edit"
        /\ inflight[i].review_id = id
        /\ inflight[i].phase = "done"}

\* C26: whatever the interleaving of the request_edit calls on a record,
\* its draft_version is 1 plus the number of calls that succeeded
C26_NoLostIncrement ==
    \A id \in 1..Len(reviews) :
       reviews[id].draft_version
          = DefaultDraftVersion + Cardinality(SuccessfulEdits(id))

CreateRequests ==
    {k \in 1..Len(calls) : calls[k].target = "index" /\ calls[k].op = "create_collection"}

\* C28: whatever the interleaving of upsert_document calls on one collection,
\* a create-collection request is issued only while the collection does not
\* exist, so at most one is issued and no ingestion fails because another
\* one created the collection first
C28_CreateOnlyWhenMissing ==
    /\ \A k \in CreateRequests : ~calls[k].existed
    /\ Cardinality(CreateRequests) <= 1
    /\ \A i \in Ingestions : inflight[i].phase # "failed"

\* C29: chunk_text and its character fallback return for every text and every
\* chunk_size >= 1, chunk_overlap >= 0, chunk_overlap >= chunk_size included
C29_ChunkLoopTerminates ==
    <>(lastOp.op = "chunk_loop" /\ lastOp.status = "returned")

\* the output fields of each stage, and the fields no stage owns
OutputFields(stage) ==
    CASE stage = "classifier" -> {"intent", "confidence"}
      [] stage = "contextBuilder" -> {"context_snippets"}
      [] stage = "drafter" -> {"draft_html"}
      [] stage = "policyGuard" -> {"violations"}
      [] OTHER -> {}
ConfigFields ==
    {"original_message_summary", "workspace_id", "thread_id", "tone_level",
     "style_json", "blocklist"}

\* a step of a stage leaves every field but the stage's own as it was
StageFrame ==
    pc \in {"classifier", "contextBuilder", "drafter", "policyGuard", "route"} =>
        /\ DOMAIN state' = DOMAIN state
        /\ \A k \in DOMAIN state \ OutputFields(pc) : state'[k] = state[k]
        /\ \A k \in ConfigFields : state'[k] = state[k]

\* C30: a stage changes only its own output fields (the Classifier intent and
\* confidence, the Context Builder context_snippets, the Drafter draft_html,
\* the Policy Guard violations), so the message summary, workspace_id,
\* thread_id, tone_level, style_json and blocklist keep, through every step
\* of a run up to its final state, the values of the initial state
C30_StagesOwnFields == [][StageFrame]_vars

C30_Witness ==
    /\ pc = "done"
    /\ trace = <<"classifier", "contextBuilder", "drafter", "policyGuard">>
    /\ state.workspace_id = "ws-a"
    /\ state.blocklist # <<>>
    /\ state.intent = JStr("support")
    /\ state.context_snippets # <<>>
    /\ state.draft_html # NoDraft
    /\ state.violations # <<>>

=============================================================================
